---- MODULE Spec2Model ----
(***************************************************************************)
(* Model of the multi-source ingestion pipeline of the impact monitor      *)
(* (backend/ingestion.py, backend/scheduler.py and the maintenance         *)
(* scripts).  The relational store is PostgreSQL reached through psycopg2: *)
(* every connection is one transaction that becomes visible at             *)
(* conn.commit(); an INSERT .. ON CONFLICT waits for an in-progress        *)
(* transaction that holds the same key.                                    *)
(***************************************************************************)
EXTENDS Integers, Sequences, FiniteSets, TLC

VARIABLES
    today,              \* datetime.now().date() as a day number
    cfg,                \* module-level configuration read from the environment
    scope,              \* which connector or arrangement of runs the behaviour follows
    news_mentions,      \* committed rows of table news_mentions
    social_mentions,    \* committed rows of table social_mentions
    daily_metrics,      \* committed rows of social_media_daily_metrics
    sentiment_metrics,  \* committed rows of social_sentiment_metrics
    citations,          \* committed rows of citations
    citation_metrics,   \* committed rows of citation_metrics
    weekly_snapshots,   \* committed rows of weekly_snapshots
    discovered_subreddits,  \* committed rows of discovered_subreddits
    env_file,           \* subreddits appended to REDDIT_RSS_URLS in /app/.env
    orch,               \* position of run_full_ingestion and its locals
    runs,               \* per process: position, inputs, locals, open transaction
    ghost               \* history kept for the properties only

storeVars == <<news_mentions, social_mentions, daily_metrics, sentiment_metrics,
               citations, citation_metrics, weekly_snapshots, discovered_subreddits>>
envVars == <<today, cfg, scope, env_file, orch>>
vars == <<today, cfg, scope, env_file, orch, news_mentions, social_mentions,
          daily_metrics, sentiment_metrics, citations, citation_metrics,
          weekly_snapshots, discovered_subreddits, runs, ghost>>

----------------------------------------------------------------------------
(* Bounds of the model *)

OrchBatch == 1                  \* records a source delivers to an orchestrated run
MaxBatch == 3       \* records delivered to one connector run
MaxRuns == 2        \* scheduled runs of the orchestrator in one process
StartDay == 8       \* the day the model starts on (day 0 is a Monday)

(* Program constants *)

SnippetLen == 500   \* entry.get('summary', '')[:500]
ContentLen == 1000  \* clean_summary[:1000]

Procs == {1, 2}

----------------------------------------------------------------------------
(* Generic helpers *)

Min(a, b) == IF a < b THEN a ELSE b
Max(a, b) == IF a > b THEN a ELSE b

RECURSIVE Gcd(_, _)
Gcd(a, b) == IF b = 0 THEN a ELSE Gcd(b, a % b)

SeqsUpTo(S, n) == UNION {[1..k -> S] : k \in 0..n}

(* what a source can deliver in one run: at most n items of its catalogue, *)
(* in catalogue order                                                      *)
Deliveries(cat, n) ==
    { [i \in 1..Len(ix) |-> cat[ix[i]]] :
        ix \in {s \in SeqsUpTo(1..Len(cat), n) :
                  \A i \in 1..(Len(s) - 1) : s[i] < s[i + 1]} }

(* get_current_week_dates: Monday of the week of a day *)
MondayOf(d) == d - (d % 7)

----------------------------------------------------------------------------
(* Text.  A text is a sequence of tokens; a token stands for a character   *)
(* or, for the tracked term, for the substring "ummatic" ("ummatics" is    *)
(* the token "ummatic" followed by "s").                                   *)

Lower(tok) ==
    CASE tok = "Ummatic" -> "ummatic"
      [] tok = "Good"    -> "good"
      [] OTHER           -> tok

LowerText(s) == [i \in 1..Len(s) |-> Lower(s[i])]

(* Python's f"{title} {full_summary}" *)
Concat(a, b) == a \o <<" ">> \o b

(* 'ummatics' in t  and  'ummatic' in t *)
HasUmmatics(t) == \E i \in 1..(Len(t) - 1) : t[i] = "ummatic" /\ t[i + 1] = "s"
HasUmmatic(t) == \E i \in 1..Len(t) : t[i] \in {"ummatic", "<a href=ummatic>"}

(* s[:n] *)
Truncate(s, n) == SubSeq(s, 1, Min(Len(s), n))

(* html.unescape: entities are decoded *)
Unescape(s) ==
    [i \in 1..Len(s) |->
        CASE s[i] = "&lt;b&gt;" -> "<b>"
          [] s[i] = "&amp;"     -> "&"
          [] OTHER              -> s[i]]

(* re.sub(r'<[^>]+>', '', ..): tags are removed *)
IsTag(tok) == tok \in {"<b>", "<a href=ummatic>"}
StripTags(s) == SelectSeq(s, LAMBDA tok : ~IsTag(tok))

----------------------------------------------------------------------------
(* Sentiment (lexical tier).  TextBlob's polarity is an external oracle;   *)
(* scores are kept in hundredths, which is what round(polarity, 2) keeps.  *)

IsUrl(tok) == tok = "http://u"

(* the cleaning of analyze_sentiment_textblob: RT prefix, urls, ellipsis *)
CleanText(s) ==
    LET noRT == IF Len(s) > 0 /\ s[1] = "RT @x: " THEN Tail(s) ELSE s
        noUrl == SelectSeq(noRT, LAMBDA tok : ~IsUrl(tok))
    IN  [i \in 1..Len(noUrl) |-> IF noUrl[i] = "..." THEN " " ELSE noUrl[i]]

Polarity(s) ==
    CASE \E i \in 1..Len(s) : s[i] = "good" -> 50
      [] \E i \in 1..Len(s) : s[i] = "bad"  -> 0 - 50
      [] \E i \in 1..Len(s) : s[i] = "meh"  -> 10
      [] OTHER                              -> 0

analyze_sentiment_textblob(text) ==
    IF text = <<>> THEN [label |-> "neutral", score |-> 0]
    ELSE LET polarity == Polarity(CleanText(text))
         IN  [label |-> IF polarity > 10 THEN "positive"
                        ELSE IF polarity < 0 - 10 THEN "negative"
                        ELSE "neutral",
              score |-> polarity]

----------------------------------------------------------------------------
(* The store.  A table is a set of rows; its unique constraint is what the *)
(* ON CONFLICT target of the statements names.                             *)

(* an open psycopg2 transaction: rows written and not yet committed, and   *)
(* whether a statement failed in it: the server then refuses every later   *)
(* statement of the transaction, and its commit is a rollback              *)
EmptyTx ==
    [social |-> {}, news |-> {}, daily |-> {}, cit |-> {}, citm |-> {},
     aborted |-> FALSE]

(* a value longer than its column admits: the server fails the INSERT *)
Overlong == "overlong"

MentionRejected(row) == row.author = Overlong
CitationRejected(row) == row.title = <<Overlong>>

SocialView(r) == social_mentions \cup runs[r].tx.social
NewsView(r) == news_mentions \cup runs[r].tx.news

(* rows another open transaction wrote under the key: the statement waits *)
SocialKeyLocked(r, post_id) ==
    \E q \in Procs \ {r} : \E x \in runs[q].tx.social : x.post_id = post_id
NewsKeyLocked(r, url, title) ==
    \E q \in Procs \ {r} : \E x \in runs[q].tx.news : x.url = url /\ x.title = title
DailyKeyLocked(r, date, platform) ==
    \E q \in Procs \ {r} : \E x \in runs[q].tx.daily :
        x.date = date /\ x.platform = platform

(* the serial primary key of a new row; rows are never deleted *)
NextId(view) == Cardinality(view) + 1

(* variants without the unique key on post_id *)
InsertMentionNoKey(view, row) == {[row EXCEPT !.id = NextId(view)]}

MentionConflictOnCounts(view, row) ==
    \E x \in view : x.post_id = row.post_id /\ x.likes = row.likes

(* INSERT INTO social_mentions .. ON CONFLICT (post_id) DO NOTHING *)
MentionConflict(view, row) == \E x \in view : x.post_id = row.post_id
InsertMention(view, row) ==
    IF MentionConflict(view, row) THEN {} ELSE {[row EXCEPT !.id = NextId(view)]}

(* INSERT INTO news_mentions .. ON CONFLICT (url, title) DO NOTHING *)
NewsConflict(view, row) == \E x \in view : x.url = row.url /\ x.title = row.title
InsertNews(view, row) ==
    IF NewsConflict(view, row) THEN {} ELSE {[row EXCEPT !.id = NextId(view)]}

(* INSERT .. ON CONFLICT (date, platform) DO UPDATE SET <cols> = EXCLUDED.<cols> *)
UpsertByDatePlatform(table, row, cols) ==
    LET old == {x \in table : x.date = row.date /\ x.platform = row.platform}
    IN  IF old = {} THEN table \cup {row}
        ELSE (table \ old) \cup
             {[c \in DOMAIN x |-> IF c \in cols THEN row[c] ELSE x[c]] : x \in old}

(* conn.commit(): the transaction's rows become the committed rows *)
CommitDaily(table, written) ==
    {x \in table : ~\E w \in written : w.date = x.date /\ w.platform = x.platform}
        \cup written

(* SQL NULL in an integer column *)
NULL == 0 - 1

(* an exact ratio num/den, den > 0, in lowest terms: a Python float result *)
Abs(n) == IF n < 0 THEN 0 - n ELSE n

Ratio(num, den) ==
    IF num = 0 THEN [num |-> 0, den |-> 1]
    ELSE LET g == Gcd(Abs(num), den) IN [num |-> num \div g, den |-> den \div g]

----------------------------------------------------------------------------
(* What the external sources deliver.  published / createdAt is "today",   *)
(* "yesterday" or "" (absent or unparsable: the code takes now).           *)

PostedDay(stamp, now) == IF stamp = "yesterday" THEN now - 1 ELSE now

RedditEntries ==
    << [id |-> "r1", title |-> <<"ummatic", "s">>, author |-> "ann",
       link |-> "l1", summary |-> <<"good">>, published |-> "today"],
      [id |-> "r2", title |-> <<"x">>, author |-> "bob",
       link |-> "l2", summary |-> <<"Ummatic", "&amp;", "bad">>, published |-> "yesterday"],
      [id |-> "r3", title |-> <<"x">>, author |-> "cy",
       link |-> "l3", summary |-> <<"x">>, published |-> "today"],
      [id |-> "", title |-> <<"ummatic">>, author |-> "dee",
       link |-> "l4", summary |-> <<>>, published |-> ""] >>

Tweets ==
    << [id |-> "p1", text |-> <<"ummatic", "s", " ", "good">>, userName |-> "ann",
        createdAt |-> "today", likeCount |-> 0, retweetCount |-> 0, replyCount |-> 0],
       [id |-> "p1", text |-> <<"ummatic", "s", " ", "good">>, userName |-> "ann",
        createdAt |-> "today", likeCount |-> 2, retweetCount |-> 1, replyCount |-> 0],
       [id |-> "p3", text |-> <<"ummatic", "s">>, userName |-> "Ummatics",
        createdAt |-> "today", likeCount |-> 1, retweetCount |-> 0, replyCount |-> 0],
       [id |-> "", text |-> <<"ummatic">>, userName |-> "cy",
        createdAt |-> "yesterday", likeCount |-> 1, retweetCount |-> 0, replyCount |-> 0] >>

(* items of the scraping service's dataset *)
ApifyItems ==
    << [id |-> "p2", text |-> <<"Ummatic", " ", "bad">>, userName |-> "bob",
        createdAt |-> "", likeCount |-> 0, retweetCount |-> 0, replyCount |-> 1],
       [id |-> "p4", text |-> <<"ummatic", "x">>, userName |-> "dan",
        createdAt |-> "today", likeCount |-> 0, retweetCount |-> 0, replyCount |-> 0] >>

FollowerAnswers == {0, 4}    \* followers_count the user lookup can return

----------------------------------------------------------------------------
(* One process (a run of a connector or script) *)

(* a stored key is delivered again with other engagement counts *)
Redelivery(view, row) ==
    \E x \in view : x.post_id = row.post_id /\ x.likes # row.likes

(* history kept for the properties: reset when a fresh run starts *)
GhostInit ==
    [pass |-> 1, rows1 |-> 0, new1 |-> 0, done_keys |-> {}, redelivered |-> FALSE,
     rate_log |-> {}, batch |-> <<>>, calls |-> {}, updated |-> {},
     google |-> {}, swept |-> FALSE]

IdleLoc ==
    [new |-> 0, today_cnt |-> 0, dup |-> 0, own |-> 0, existing |-> {},
     newk |-> {}, dupk |-> {}, looked |-> 0,
     all_tweets |-> <<>>, follower |-> 0, fallback |-> FALSE, sel |-> <<0, 0>>,
     total_citations |-> 0, works_count |-> 0]

(* run_full_ingestion not running *)
(* besides its position, what the run has done so far: the stages         *)
(* entered, the names discovery returned, the feeds ingest_reddit went     *)
(* through, and what the run before appended to the configuration file     *)
OrchIdle ==
    [pc |-> "idle", log |-> <<>>, new_subreddits |-> <<>>, failed |-> {}, run |-> 1,
     discovered |-> {}, stored_before |-> {}, fetched |-> {}, appended |-> {},
     appended_before |-> {}, rejected |-> {}]

IdleRun ==
    [pc |-> "idle", kind |-> "none", feed |-> <<>>, i |-> 1, day |-> 0,
     tx |-> EmptyTx, loc |-> IdleLoc]

CanStart(r) == runs[r].pc \in {"idle", "done", "crashed"}

Begin(r, kind, feed, pc) ==
    [IdleRun EXCEPT !.pc = pc, !.kind = kind, !.feed = feed, !.day = today]

----------------------------------------------------------------------------
(* ingest_reddit *)

(* variant that filters on the stored (truncated) content *)
RedditRelevantAfterTruncate(entry) ==
    LET content == Truncate(StripTags(Unescape(entry.summary)), ContentLen)
        combined_text == LowerText(Concat(entry.title, content))
    IN  HasUmmatics(combined_text) \/ HasUmmatic(combined_text)

(* the relevance filter, on the full summary *)
RedditRelevant(entry) ==
    LET combined_text == LowerText(Concat(entry.title, entry.summary))
    IN  HasUmmatics(combined_text) \/ HasUmmatic(combined_text)

RedditRow(entry, now) ==
    LET clean_summary == StripTags(Unescape(entry.summary))
        content == Truncate(clean_summary, ContentLen)
        s == analyze_sentiment_textblob(Concat(entry.title, content))
    IN  [id |-> 0, week_start_date |-> MondayOf(now), platform |-> "Reddit",
         post_id |-> entry.id, author |-> entry.author, content |-> content,
         post_url |-> entry.link, posted_at |-> PostedDay(entry.published, now),
         likes |-> 0, retweets |-> 0, replies |-> 0,
         sentiment |-> s.label, sentiment_score |-> s.score, analyzed |-> TRUE]

(* a transaction's view of social_media_daily_metrics, and an upsert in it *)
DailyView(r) == CommitDaily(daily_metrics, runs[r].tx.daily)

DailyUpsert(r, row, cols) ==
    LET t == UpsertByDatePlatform(DailyView(r), row, cols)
        kept == {x \in runs[r].tx.daily :
                    ~(x.date = row.date /\ x.platform = row.platform)}
    IN  kept \cup {x \in t : x.date = row.date /\ x.platform = row.platform}

RECURSIVE SumScores(_)
SumScores(S) ==
    IF S = {} THEN 0
    ELSE LET x == CHOOSE y \in S : TRUE IN x.sentiment_score + SumScores(S \ {x})

(* a mean that counts a row without a score as a score of zero *)
SentimentRowNullAsZero(mentions, date, platform) ==
    LET part == {x \in mentions : x.platform = platform /\ x.posted_at = date}
        scored == {x \in part : x.analyzed}
        cnt(label) == Cardinality({x \in part : x.analyzed /\ x.sentiment = label})
    IN  [date |-> date, platform |-> platform,
         positive_count |-> cnt("positive"), negative_count |-> cnt("negative"),
         neutral_count |-> cnt("neutral"),
         unanalyzed_count |-> Cardinality({x \in part : ~x.analyzed}),
         average_sentiment_score |->
            IF part = {} THEN Ratio(0, 1)
            ELSE Ratio(SumScores(scored), Cardinality(part))]

(* update_sentiment_metrics(date, platform): its own connection, so it     *)
(* reads committed rows only, and commits its upsert at once               *)
SentimentRow(mentions, date, platform) ==
    LET part == {x \in mentions : x.platform = platform /\ x.posted_at = date}
        scored == {x \in part : x.analyzed}
        cnt(label) == Cardinality({x \in part : x.analyzed /\ x.sentiment = label})
    IN  [date |-> date, platform |-> platform,
         positive_count |-> cnt("positive"), negative_count |-> cnt("negative"),
         neutral_count |-> cnt("neutral"),
         unanalyzed_count |-> Cardinality({x \in part : ~x.analyzed}),
         average_sentiment_score |->
            IF scored = {} THEN Ratio(0, 1)
            ELSE Ratio(SumScores(scored), Cardinality(scored))]

update_sentiment_metrics(table, mentions, date, platform) ==
    UpsertByDatePlatform(table, SentimentRow(mentions, date, platform),
        {"positive_count", "negative_count", "neutral_count", "unanalyzed_count",
         "average_sentiment_score"})

(* the configuration guard and the feeds the run fetches *)
BeginReddit(r, n) ==
    IF cfg.reddit_urls
    THEN \E feed \in Deliveries(RedditEntries, n) :
            runs' = [runs EXCEPT ![r] = Begin(r, "reddit", feed, "rd_loop")]
    ELSE runs' = [runs EXCEPT ![r] = Begin(r, "reddit", <<>>, "done")]

StartReddit(r) ==
    /\ scope = "reddit"
    /\ CanStart(r)
    /\ BeginReddit(r, MaxBatch)
    /\ ghost' = GhostInit
    /\ UNCHANGED <<envVars, storeVars>>

(* one iteration of the entry loop *)
RedditEntry(r) ==
    LET run == runs[r]
        entry == run.feed[run.i]
        row == RedditRow(entry, today)
        ins == InsertMention(SocialView(r), row)
    IN  /\ run.pc = "rd_loop" /\ run.i <= Len(run.feed)
        /\ IF entry.id = "" \/ ~RedditRelevant(entry)
           THEN /\ runs' = [runs EXCEPT ![r].i = run.i + 1]
                /\ ghost' = ghost
           ELSE IF run.tx.aborted \/ MentionRejected(row)
           THEN /\ runs' = [runs EXCEPT ![r].i = run.i + 1, ![r].tx.aborted = TRUE]
                /\ ghost' = ghost
           ELSE /\ ~SocialKeyLocked(r, row.post_id)
                /\ runs' = [runs EXCEPT
                      ![r].i = run.i + 1,
                      ![r].tx.social = run.tx.social \cup ins,
                      ![r].loc.new = run.loc.new + Cardinality(ins),
                      ![r].loc.newk = run.loc.newk \cup {x.post_id : x \in ins},
                      ![r].loc.today_cnt = run.loc.today_cnt +
                          (IF ins # {} /\ row.posted_at = run.day THEN 1 ELSE 0)]
                /\ ghost' = [ghost EXCEPT
                      !.done_keys = ghost.done_keys \cup {row.post_id},
                      !.redelivered = ghost.redelivered \/
                          Redelivery(SocialView(r), row)]
        /\ UNCHANGED <<envVars, storeVars>>

RedditDailyRow(day, total_mentions_today) ==
    [date |-> day, platform |-> "Reddit", follower_count |-> NULL,
     mentions_count |-> total_mentions_today, engagement_rate |-> Ratio(0, 1)]

(* the daily-metrics upsert after the loop *)
RedditDaily(r) ==
    LET run == runs[r]
        row == RedditDailyRow(run.day, run.loc.today_cnt)
    IN  /\ run.pc = "rd_loop" /\ run.i > Len(run.feed)
        /\ IF run.loc.today_cnt > 0 /\ run.tx.aborted
           THEN runs' = [runs EXCEPT ![r].pc = "done", ![r].tx = EmptyTx]
           ELSE IF run.loc.today_cnt > 0
           THEN /\ ~DailyKeyLocked(r, run.day, "Reddit")
                /\ runs' = [runs EXCEPT
                      ![r].pc = "rd_sent",
                      ![r].tx.daily =
                          DailyUpsert(r, row, {"mentions_count", "engagement_rate"})]
           ELSE runs' = [runs EXCEPT ![r].pc = "rd_sent"]
        /\ UNCHANGED <<envVars, storeVars, ghost>>

RedditSentiment(r) ==
    LET run == runs[r]
    IN  /\ run.pc = "rd_sent"
        /\ sentiment_metrics' =
              IF run.loc.new > 0
              THEN update_sentiment_metrics(sentiment_metrics, social_mentions,
                                            run.day, "Reddit")
              ELSE sentiment_metrics
        /\ runs' = [runs EXCEPT ![r].pc = "commit"]
        /\ UNCHANGED <<envVars, news_mentions, social_mentions, daily_metrics,
                       citations, citation_metrics, weekly_snapshots,
                       discovered_subreddits, ghost>>

----------------------------------------------------------------------------
(* ingest_twitter *)

LowerName(u) == IF u = "Ummatics" THEN "ummatics" ELSE u

IsWordTok(tok) == tok \notin {" ", "...", "&", "http://u"}

(* re.search(r'\bummatics\b', text) or re.search(r'\bummatic\b', text) *)
StrictMatch(text) ==
    LET t == LowerText(text)
        startsWord(i) == i = 1 \/ ~IsWordTok(t[i - 1])
        endsWord(i) == i = Len(t) \/ ~IsWordTok(t[i + 1])
    IN  \/ \E i \in 1..Len(t) : t[i] = "ummatic" /\ startsWord(i) /\ endsWord(i)
        \/ \E i \in 1..(Len(t) - 1) :
              t[i] = "ummatic" /\ t[i + 1] = "s" /\ startsWord(i) /\ endsWord(i + 1)

(* what the external services answer in one run *)
TwitterFeedsUpTo(n) ==
    { f \in [primary : {"200", "429", "401", "exc"},
             tweets : Deliveries(Tweets, n),
             apify : {"ok", "exc"},
             items : Deliveries(ApifyItems, n)] :
        /\ f.primary # "200" => f.tweets = <<>>
        /\ f.primary # "exc" => f.apify = "ok"
        /\ (f.primary # "exc" \/ f.apify = "exc") => f.items = <<>> }

TwitterFeeds == TwitterFeedsUpTo(MaxBatch)

TweetRow(tweet, now) ==
    LET s == analyze_sentiment_textblob(tweet.text)
    IN  [id |-> 0, week_start_date |-> MondayOf(now), platform |-> "Twitter",
         post_id |-> tweet.id, author |-> tweet.userName, content |-> tweet.text,
         post_url |-> <<tweet.userName, tweet.id>>,
         posted_at |-> PostedDay(tweet.createdAt, now),
         likes |-> tweet.likeCount, retweets |-> tweet.retweetCount,
         replies |-> tweet.replyCount,
         sentiment |-> s.label, sentiment_score |-> s.score, analyzed |-> TRUE]

(* the token guard and what the services will answer *)
BeginTwitter(r, n) ==
    IF cfg.twitter_token
    THEN \E feed \in TwitterFeedsUpTo(n) :
            runs' = [runs EXCEPT ![r] = Begin(r, "twitter", feed, "tw_preread")]
    ELSE runs' = [runs EXCEPT ![r] = Begin(r, "twitter", <<>>, "done")]

StartTwitter(r) ==
    /\ scope = "twitter"
    /\ CanStart(r)
    /\ BeginTwitter(r, MaxBatch)
    /\ ghost' = GhostInit
    /\ UNCHANGED <<envVars, storeVars>>

(* SELECT post_id FROM social_mentions WHERE platform = 'Twitter' *)
TwitterPreread(r) ==
    /\ runs[r].pc = "tw_preread"
    /\ runs' = [runs EXCEPT
          ![r].pc = "tw_primary",
          ![r].loc.existing =
              {x.post_id : x \in {y \in social_mentions : y.platform = "Twitter"}}]
    /\ UNCHANGED <<envVars, storeVars, ghost>>

(* the search API call and the branches on its outcome *)
TwitterPrimary(r) ==
    LET run == runs[r]
    IN  /\ run.pc = "tw_primary"
        /\ runs' = [runs EXCEPT
              ![r].pc = CASE run.feed.primary \in {"200", "429", "401"} -> "tw_follow"
                          [] cfg.apify_token -> "tw_apify"
                          [] OTHER -> "done",
              ![r].loc.all_tweets =
                  IF run.feed.primary = "200" THEN run.feed.tweets ELSE <<>>]
        /\ UNCHANGED <<envVars, storeVars, ghost>>

(* the scraping tier *)
TwitterApify(r) ==
    LET run == runs[r]
    IN  /\ run.pc = "tw_apify"
        /\ runs' = [runs EXCEPT
              ![r].pc = "tw_follow",
              ![r].loc.fallback = TRUE,
              ![r].loc.all_tweets =
                  IF run.feed.apify = "ok"
                  THEN SelectSeq(run.feed.items, LAMBDA t : StrictMatch(t.text))
                  ELSE <<>>]
        /\ UNCHANGED <<envVars, storeVars, ghost>>

(* SELECT follower_count .. WHERE platform = 'Twitter' ORDER BY date DESC LIMIT 1 *)
PreviousFollowerCount(table) ==
    LET rows == {x \in table : x.platform = "Twitter"}
        latest == CHOOSE x \in rows : \A y \in rows : y.date <= x.date
    IN  IF rows # {} /\ latest.follower_count > 0 THEN latest.follower_count ELSE 0

(* the two user lookups and the fall back on the stored count *)
TwitterFollower(r) ==
    /\ runs[r].pc = "tw_follow"
    /\ \E a1 \in FollowerAnswers, a2 \in FollowerAnswers :
          LET looked == IF a1 = 0 THEN a2 ELSE a1
          IN  /\ a1 # 0 => a2 = 0
              /\ runs' = [runs EXCEPT
                    ![r].pc = "tw_loop",
                    ![r].loc.looked = looked,
                    ![r].loc.follower =
                        IF looked = 0 THEN PreviousFollowerCount(daily_metrics)
                        ELSE looked]
    /\ UNCHANGED <<envVars, storeVars, ghost>>

(* one iteration of the tweet loop *)
TwitterTweet(r) ==
    LET run == runs[r]
        tweet == run.loc.all_tweets[run.i]
        row == TweetRow(tweet, today)
        ins == InsertMention(SocialView(r), row)
    IN  /\ run.pc = "tw_loop" /\ run.i <= Len(run.loc.all_tweets)
        /\ CASE tweet.id = "" ->
                  /\ runs' = [runs EXCEPT ![r].i = run.i + 1]
                  /\ ghost' = ghost
             [] tweet.id # "" /\ LowerName(tweet.userName) = "ummatics" ->
                  /\ runs' = [runs EXCEPT ![r].i = run.i + 1,
                                          ![r].loc.own = run.loc.own + 1]
                  /\ ghost' = ghost
             [] tweet.id # "" /\ LowerName(tweet.userName) # "ummatics"
                    /\ tweet.id \in run.loc.existing ->
                  /\ runs' = [runs EXCEPT ![r].i = run.i + 1,
                                          ![r].loc.dup = run.loc.dup + 1,
                                          ![r].loc.dupk = run.loc.dupk \cup {tweet.id}]
                  /\ ghost' = [ghost EXCEPT
                        !.redelivered = ghost.redelivered \/ Redelivery(SocialView(r), row)]
             [] tweet.id # "" /\ LowerName(tweet.userName) # "ummatics"
                    /\ tweet.id \notin run.loc.existing
                    /\ (run.tx.aborted \/ MentionRejected(row)) ->
                  /\ runs' = [runs EXCEPT ![r].i = run.i + 1,
                                          ![r].tx.aborted = TRUE]
                  /\ ghost' = ghost
             [] OTHER ->
                  /\ ~SocialKeyLocked(r, row.post_id)
                  /\ runs' = [runs EXCEPT
                        ![r].i = run.i + 1,
                        ![r].tx.social = run.tx.social \cup ins,
                        ![r].loc.new = run.loc.new + Cardinality(ins),
                        ![r].loc.newk = run.loc.newk \cup {x.post_id : x \in ins}]
                  /\ ghost' = [ghost EXCEPT
                        !.done_keys = ghost.done_keys \cup {row.post_id},
                        !.redelivered = ghost.redelivered \/
                            Redelivery(SocialView(r), row)]
        /\ UNCHANGED <<envVars, storeVars>>

RECURSIVE SumEngagement(_)
SumEngagement(S) ==
    IF S = {} THEN 0
    ELSE LET x == CHOOSE y \in S : TRUE
         IN  x.likes + x.retweets + x.replies + SumEngagement(S \ {x})

(* SELECT COUNT, COALESCE(SUM(likes + retweets + replies), 0) of the day *)
DayTotals(view, platform, date) ==
    LET part == {x \in view : x.platform = platform /\ x.posted_at = date}
    IN  <<Cardinality(part), SumEngagement(part)>>

TwitterSelect(r) ==
    LET run == runs[r]
    IN  /\ run.pc = "tw_loop" /\ run.i > Len(run.loc.all_tweets)
        /\ runs' = IF run.tx.aborted
                   THEN [runs EXCEPT ![r].pc = "done", ![r].tx = EmptyTx]
                   ELSE [runs EXCEPT
                           ![r].pc = "tw_upsert",
                           ![r].loc.sel = DayTotals(SocialView(r), "Twitter", run.day)]
        /\ UNCHANGED <<envVars, storeVars, ghost>>

(* variant without the zero-follower guard's zero *)
EngagementRateUnguarded(total_engagement, follower_count) ==
    Ratio(total_engagement * 100, Max(1, follower_count))

(* (total_engagement_today / follower_count * 100) if follower_count > 0 else 0 *)
EngagementRate(total_engagement, follower_count) ==
    IF follower_count > 0 THEN Ratio(total_engagement * 100, follower_count)
    ELSE Ratio(0, 1)

TwitterDailyRow(day, follower_count, sel) ==
    [date |-> day, platform |-> "Twitter", follower_count |-> follower_count,
     mentions_count |-> sel[1],
     engagement_rate |-> EngagementRate(sel[2], follower_count)]

TwitterUpsert(r) ==
    LET run == runs[r]
        row == TwitterDailyRow(run.day, run.loc.follower, run.loc.sel)
        engagement_rate == row.engagement_rate
    IN  /\ run.pc = "tw_upsert"
        /\ ~DailyKeyLocked(r, run.day, "Twitter")
        /\ runs' = [runs EXCEPT
              ![r].pc = "commit",
              ![r].tx.daily = DailyUpsert(r, row,
                  {"follower_count", "mentions_count", "engagement_rate"})]
        /\ ghost' = [ghost EXCEPT !.rate_log =
              {[follower_count |-> run.loc.follower, total |-> run.loc.sel[2],
                engagement_rate |-> engagement_rate]}]
        /\ UNCHANGED <<envVars, storeVars>>

(* update_sentiment_metrics(today) after the commit *)
TwitterSentiment(r) ==
    LET run == runs[r]
    IN  /\ run.pc = "tw_sent"
        /\ sentiment_metrics' =
              update_sentiment_metrics(sentiment_metrics, social_mentions,
                                       run.day, "Twitter")
        /\ runs' = [runs EXCEPT ![r].pc = "done"]
        /\ UNCHANGED <<envVars, news_mentions, social_mentions, daily_metrics,
                       citations, citation_metrics, weekly_snapshots,
                       discovered_subreddits, ghost>>

----------------------------------------------------------------------------
(* recalculate_engagement_rate.py: every Twitter row of the daily metrics  *)
(* gets its rate and mentions_count again from the mentions of its day     *)

RecalculatedRow(mentions, metric) ==
    LET totals == DayTotals(mentions, metric.platform, metric.date)
    IN  [metric EXCEPT
            !.engagement_rate = EngagementRate(totals[2], metric.follower_count),
            !.mentions_count = totals[1]]

recalculate_engagement_rates ==
    LET metrics == {m \in daily_metrics : m.platform = "Twitter"}
    IN  /\ scope = "twitter"
        /\ runs[1].pc \in {"idle", "done", "crashed"}
        /\ daily_metrics' = (daily_metrics \ metrics) \cup
              {RecalculatedRow(social_mentions, m) : m \in metrics}
        /\ ghost' = [ghost EXCEPT !.rate_log =
              {[follower_count |-> m.follower_count,
                total |-> DayTotals(social_mentions, m.platform, m.date)[2],
                engagement_rate |-> RecalculatedRow(social_mentions, m).engagement_rate]
               : m \in metrics}]
        /\ UNCHANGED <<envVars, news_mentions, social_mentions,
                       sentiment_metrics, citations, citation_metrics,
                       weekly_snapshots, discovered_subreddits, runs>>

----------------------------------------------------------------------------
(* ingest_google_alerts *)

NewsEntries ==
    << [title |-> <<"a">>, link |-> "u1", source |-> "s1",
        summary |-> <<"x", "<b>">>, published |-> "today"],
       [title |-> <<"b">>, link |-> "u1", source |-> "Unknown",
        summary |-> <<>>, published |-> ""],
       [title |-> <<"c">>, link |-> "", source |-> "s1",
        summary |-> <<"x">>, published |-> "yesterday"],
       [title |-> <<>>, link |-> "u2", source |-> "s1",
        summary |-> <<"x">>, published |-> "today"] >>

NewsRow(entry, monday, now) ==
    [id |-> 0, week_start_date |-> monday, title |-> entry.title, url |-> entry.link,
     source |-> entry.source, published_at |-> PostedDay(entry.published, now),
     snippet |-> Truncate(entry.summary, SnippetLen)]

(* the configuration guard and the parsed feed *)
BeginNews(r, n) ==
    IF cfg.news_url
    THEN \E feed \in Deliveries(NewsEntries, n) :
            runs' = [runs EXCEPT ![r] = Begin(r, "news", feed, "nw_loop")]
    ELSE runs' = [runs EXCEPT ![r] = Begin(r, "news", <<>>, "done")]

StartNews(r) ==
    /\ scope = "news"
    /\ CanStart(r)
    /\ BeginNews(r, MaxBatch)
    /\ ghost' = GhostInit
    /\ UNCHANGED <<envVars, storeVars>>

(* one iteration of the entry loop *)
NewsEntry(r) ==
    LET run == runs[r]
        row == NewsRow(run.feed[run.i], MondayOf(run.day), today)
        ins == InsertNews(NewsView(r), row)
    IN  /\ run.pc = "nw_loop" /\ run.i <= Len(run.feed)
        /\ ~NewsKeyLocked(r, row.url, row.title)
        /\ runs' = [runs EXCEPT
              ![r].i = run.i + 1,
              ![r].tx.news = run.tx.news \cup ins,
              ![r].loc.new = run.loc.new + Cardinality(ins)]
        /\ ghost' = [ghost EXCEPT
              !.done_keys = ghost.done_keys \cup {<<row.url, row.title>>},
              !.redelivered = ghost.redelivered \/ ins = {}]
        /\ UNCHANGED <<envVars, storeVars>>

NewsLoopEnd(r) ==
    /\ runs[r].pc = "nw_loop" /\ runs[r].i > Len(runs[r].feed)
    /\ runs' = [runs EXCEPT ![r].pc = "commit"]
    /\ UNCHANGED <<envVars, storeVars, ghost>>

----------------------------------------------------------------------------
(* ingest_openalex *)

(* a work of the API answer; id "" stands for an answer without the key *)
Works ==
    << [id |-> "w1", title |-> <<"ummatic", "s", ".org">>, cited_by_count |-> 1,
        publication_date |-> 3],
       [id |-> "w1", title |-> <<"ummatic", " ", "x">>, cited_by_count |-> 3,
        publication_date |-> 3],
       [id |-> "w2", title |-> <<"ummatic", "s">>, cited_by_count |-> 2,
        publication_date |-> NULL],
       [id |-> "", title |-> <<"x">>, cited_by_count |-> 5,
        publication_date |-> 3] >>

(* the text with every 'ummatics' removed: full_text.replace('ummatics', '') *)
RECURSIVE RemoveUmmatics(_)
RemoveUmmatics(t) ==
    IF Len(t) < 2 THEN t
    ELSE IF t[1] = "ummatic" /\ t[2] = "s" THEN RemoveUmmatics(SubSeq(t, 3, Len(t)))
    ELSE <<t[1]>> \o RemoveUmmatics(Tail(t))

(* organization vs word usage *)
CitationType(title) ==
    LET full_text == LowerText(title)
        org == \E i \in 1..(Len(full_text) - 2) :
                  /\ full_text[i] = "ummatic" /\ full_text[i + 1] = "s"
                  /\ full_text[i + 2] = ".org"
    IN  IF org THEN "organization"
        ELSE IF HasUmmatics(full_text) /\ ~HasUmmatic(RemoveUmmatics(full_text))
             THEN "organization"
        ELSE "word"

CitationRow(work, now) ==
    [id |-> 0, work_id |-> work.id, title |-> work.title,
     publication_date |-> work.publication_date,
     cited_by_count |-> work.cited_by_count, source_url |-> <<"openalex", work.id>>,
     citation_type |-> CitationType(work.title), updated_at |-> now,
     created_at |-> now, is_dead |-> FALSE]

CitationsView(r) ==
    {x \in citations : ~\E w \in runs[r].tx.cit : w.work_id = x.work_id}
        \cup runs[r].tx.cit

(* an upsert that overwrites the stored row with the new one *)
UpsertCitationReplace(view, row) ==
    LET old == {x \in view : x.work_id = row.work_id}
    IN  IF old = {} THEN {[row EXCEPT !.id = NextId(view)]}
        ELSE {[row EXCEPT !.id = x.id] : x \in old}

(* INSERT INTO citations .. ON CONFLICT (work_id) DO UPDATE SET             *)
(* cited_by_count, citation_type, updated_at = EXCLUDED..                   *)
UpsertCitation(view, row) ==
    LET old == {x \in view : x.work_id = row.work_id}
    IN  IF old = {} THEN {[row EXCEPT !.id = NextId(view)]}
        ELSE {[x EXCEPT !.cited_by_count = row.cited_by_count,
                        !.citation_type = row.citation_type,
                        !.updated_at = row.updated_at] : x \in old}

CitationKeyLocked(r, work_id) ==
    \E q \in Procs \ {r} : \E x \in runs[q].tx.cit : x.work_id = work_id

OpenAlexFeedsUpTo(n) ==
    { f \in [status : {"ok", "err"}, works : Deliveries(Works, n)] :
        f.status = "err" => f.works = <<>> }

(* the API call; raise_for_status ends the run in the outer handler *)
BeginOpenAlex(r, n) ==
    \E feed \in OpenAlexFeedsUpTo(n) :
        runs' = [runs EXCEPT ![r] =
            Begin(r, "openalex", feed, IF feed.status = "ok" THEN "oa_loop" ELSE "done")]

StartOpenAlex(r) ==
    /\ scope = "citations"
    /\ CanStart(r)
    /\ BeginOpenAlex(r, MaxBatch)
    /\ ghost' = GhostInit
    /\ UNCHANGED <<envVars, storeVars>>

(* one iteration of the work loop; work['id'] raises for a missing key and *)
(* the handler of the loop body goes on with the next work                 *)
OpenAlexWork(r) ==
    LET run == runs[r]
        work == run.feed.works[run.i]
        row == CitationRow(work, today)
        inserted == ~\E x \in CitationsView(r) : x.work_id = row.work_id
        written == UpsertCitation(CitationsView(r), row)
    IN  /\ run.pc = "oa_loop" /\ run.i <= Len(run.feed.works)
        /\ IF work.id = ""
           THEN /\ runs' = [runs EXCEPT ![r].i = run.i + 1]
                /\ ghost' = ghost
           ELSE IF run.tx.aborted \/ CitationRejected(row)
           THEN /\ runs' = [runs EXCEPT
                      ![r].i = run.i + 1,
                      ![r].tx.aborted = TRUE,
                      ![r].loc.total_citations =
                          run.loc.total_citations + work.cited_by_count,
                      ![r].loc.works_count = run.loc.works_count + 1]
                /\ ghost' = ghost
           ELSE /\ ~CitationKeyLocked(r, row.work_id)
                /\ runs' = [runs EXCEPT
                      ![r].i = run.i + 1,
                      ![r].tx.cit = {x \in run.tx.cit : x.work_id # row.work_id}
                                        \cup written,
                      ![r].loc.total_citations =
                          run.loc.total_citations + work.cited_by_count,
                      ![r].loc.works_count = run.loc.works_count + 1,
                      ![r].loc.new = run.loc.new + (IF inserted THEN 1 ELSE 0),
                      ![r].loc.dup = run.loc.dup + (IF inserted THEN 0 ELSE 1)]
                /\ ghost' = [ghost EXCEPT
                      !.done_keys = ghost.done_keys \cup {row.work_id}]
        /\ UNCHANGED <<envVars, storeVars>>

(* a week's new citations without the clamp *)
NewCitationsUnclamped(total_citations, previous_total) == total_citations - previous_total

(* new_citations = max(0, total_citations - previous_total) *)
NewCitations(total_citations, previous_total) ==
    Max(0, total_citations - previous_total)

(* SELECT total_citations .. WHERE week_start_date < monday ORDER BY .. DESC LIMIT 1 *)
PreviousTotal(table, monday) ==
    LET rows == {x \in table : x.week_start_date < monday}
        latest == CHOOSE x \in rows : \A y \in rows : y.week_start_date <= x.week_start_date
    IN  IF rows = {} THEN 0 ELSE latest.total_citations

CitationMetricsView(r) ==
    {x \in citation_metrics :
        ~\E w \in runs[r].tx.citm : w.week_start_date = x.week_start_date}
        \cup runs[r].tx.citm

(* the weekly citation metrics after the loop *)
OpenAlexMetrics(r) ==
    LET run == runs[r]
        monday == MondayOf(run.day)
        previous_total == PreviousTotal(CitationMetricsView(r), monday)
        row == [week_start_date |-> monday,
                total_citations |-> run.loc.total_citations,
                new_citations_this_week |->
                    NewCitations(run.loc.total_citations, previous_total),
                total_works |-> run.loc.works_count]
    IN  /\ run.pc = "oa_loop" /\ run.i > Len(run.feed.works)
        /\ IF run.tx.aborted
           THEN runs' = [runs EXCEPT ![r].pc = "done", ![r].tx = EmptyTx]
           ELSE /\ ~\E q \in Procs \ {r} :
                      \E x \in runs[q].tx.citm : x.week_start_date = monday
                /\ runs' = [runs EXCEPT ![r].pc = "commit", ![r].tx.citm = {row}]
        /\ UNCHANGED <<envVars, storeVars, ghost>>

----------------------------------------------------------------------------
(* Transactions end *)

(* conn.commit() of the connector's connection *)
CommitRun(r) ==
    LET run == runs[r]
        tx == IF run.tx.aborted THEN EmptyTx ELSE run.tx
    IN  /\ run.pc = "commit"
        /\ social_mentions' = social_mentions \cup tx.social
        /\ news_mentions' = news_mentions \cup tx.news
        /\ daily_metrics' = CommitDaily(daily_metrics, tx.daily)
        /\ runs' = [runs EXCEPT
              ![r].pc = IF run.kind = "twitter" THEN "tw_sent" ELSE "done",
              ![r].tx = EmptyTx]
        /\ citations' =
              {x \in citations : ~\E w \in tx.cit : w.work_id = x.work_id}
                  \cup tx.cit
        /\ citation_metrics' =
              {x \in citation_metrics :
                  ~\E w \in tx.citm : w.week_start_date = x.week_start_date}
                  \cup tx.citm
        /\ UNCHANGED <<envVars, sentiment_metrics, weekly_snapshots,
                       discovered_subreddits, ghost>>

(* the process dies: the server rolls the open transaction back *)
Crash(r) ==
    /\ runs[r].pc \notin {"idle", "done", "crashed"}
    /\ runs' = [runs EXCEPT ![r] = [IdleRun EXCEPT !.pc = "crashed"]]
    /\ UNCHANGED <<envVars, storeVars, ghost>>

RowCount(kind) ==
    CASE kind \in {"reddit", "twitter"} -> Cardinality(social_mentions)
      [] kind = "news" -> Cardinality(news_mentions)
      [] OTHER -> Cardinality(citations)

FirstStep(r, kind) ==
    CASE kind = "reddit"  -> IF cfg.reddit_urls THEN "rd_loop" ELSE "done"
      [] kind = "twitter" -> IF cfg.twitter_token THEN "tw_preread" ELSE "done"
      [] kind = "news"    -> IF cfg.news_url THEN "nw_loop" ELSE "done"
      [] OTHER -> IF runs[r].feed.status = "ok" THEN "oa_loop" ELSE "done"

(* the connector is run again and its sources deliver what they delivered *)
Rerun(r) ==
    LET run == runs[r]
    IN  /\ run.pc = "done" /\ run.kind # "none" /\ ghost.pass = 1
        /\ runs' = [runs EXCEPT ![r] =
              Begin(r, run.kind, run.feed, FirstStep(r, run.kind))]
        /\ ghost' = [ghost EXCEPT !.pass = 2, !.rows1 = RowCount(run.kind),
                                  !.new1 = run.loc.new, !.done_keys = {},
                                  !.redelivered = FALSE]
        /\ UNCHANGED <<envVars, storeVars>>

----------------------------------------------------------------------------
(* Specification: one process runs the connectors one after the other *)

Configs ==
    { [reddit_urls |-> TRUE, twitter_token |-> TRUE, apify_token |-> TRUE, news_url |-> TRUE],
      [reddit_urls |-> FALSE, twitter_token |-> TRUE, apify_token |-> FALSE, news_url |-> FALSE],
      [reddit_urls |-> FALSE, twitter_token |-> FALSE, apify_token |-> FALSE, news_url |-> FALSE] }

Scopes == {"reddit", "twitter", "news", "citations"}

Init ==
    /\ today = StartDay
    /\ cfg \in Configs
    /\ scope \in Scopes
    /\ news_mentions = {} /\ social_mentions = {} /\ daily_metrics = {}
    /\ sentiment_metrics = {} /\ citations = {} /\ citation_metrics = {}
    /\ weekly_snapshots = {} /\ discovered_subreddits = {}
    /\ env_file = <<>> /\ orch = OrchIdle
    /\ runs = [r \in Procs |-> IdleRun]
    /\ ghost = GhostInit

Next ==
    \/ StartReddit(1)
    \/ RedditEntry(1)
    \/ RedditDaily(1)
    \/ RedditSentiment(1)
    \/ StartTwitter(1)
    \/ TwitterPreread(1)
    \/ TwitterPrimary(1)
    \/ TwitterApify(1)
    \/ TwitterFollower(1)
    \/ TwitterTweet(1)
    \/ TwitterSelect(1)
    \/ TwitterUpsert(1)
    \/ TwitterSentiment(1)
    \/ recalculate_engagement_rates
    \/ StartNews(1)
    \/ NewsEntry(1)
    \/ NewsLoopEnd(1)
    \/ StartOpenAlex(1)
    \/ OpenAlexWork(1)
    \/ OpenAlexMetrics(1)
    \/ CommitRun(1)
    \/ Crash(1)
    \/ Rerun(1)

Spec == Init /\ [][Next]_vars

----------------------------------------------------------------------------
(* Properties of the sequential specification *)

(* C1: persisting the same batch twice in succession leaves the same      *)
(* number of stored rows as persisting it once, for every connector       *)
IdempotentPersist ==
    (runs[1].pc = "done" /\ ghost.pass = 2) =>
        RowCount(runs[1].kind) = ghost.rows1 /\ runs[1].loc.new = 0

IdempotentPersistWitness ==
    runs[1].pc = "done" /\ ghost.pass = 2 /\ ghost.new1 >= 2

(* C2: a stored mention row is never changed or removed by a later        *)
(* delivery of its key, and its key never has a second row                *)
MentionImmutable ==
    [][\A x \in social_mentions :
          /\ x \in social_mentions'
          /\ Cardinality({y \in social_mentions' : y.post_id = x.post_id}) = 1]_vars

MentionImmutableWitness ==
    /\ runs[1].pc = "done" /\ runs[1].kind = "twitter"
    /\ ghost.redelivered /\ runs[1].loc.dup > 0

(* C6: when the primary search does not answer 200 (exception, 429, other *)
(* status) and the scraping credential is set, the fallback tier runs     *)
FallbackOnPrimaryFailure ==
    (/\ runs[1].kind = "twitter" /\ cfg.twitter_token /\ cfg.apify_token
     /\ runs[1].pc \in {"tw_follow", "tw_loop", "tw_select", "tw_upsert",
                        "commit", "tw_sent", "done"}
     /\ runs[1].feed.primary # "200")
        => runs[1].loc.fallback

KeyStored(k) ==
    CASE scope \in {"reddit", "twitter"} -> \E x \in social_mentions : x.post_id = k
      [] scope = "news" -> \E x \in news_mentions : <<x.url, x.title>> = k
      [] OTHER -> \E x \in citations : x.work_id = k

(* C7: after a crash inside the record loop every record whose statement  *)
(* had completed is in the store                                          *)
CrashKeepsCompleted ==
    runs[1].pc = "crashed" => \A k \in ghost.done_keys : KeyStored(k)

(* C9: every stored news entry has a non-empty title and a non-empty link *)
NewsNeedsTitleAndLink ==
    \A x \in news_mentions : x.title # <<>> /\ x.url # ""

(* C10 as stated: the written engagement_rate is >= 0 and is 0 exactly    *)
(* when follower_count = 0                                                *)
RateZeroIffNoFollowers ==
    \A w \in ghost.rate_log :
        /\ w.engagement_rate.num >= 0
        /\ (w.engagement_rate.num = 0 <=> w.follower_count = 0)

(* C10: the written engagement_rate is >= 0, and is 0 exactly when        *)
(* follower_count = 0 or the day's total engagement is 0                  *)
RateZeroIffNoFollowersOrNoEngagement ==
    \A w \in ghost.rate_log :
        /\ w.engagement_rate.num >= 0 /\ w.engagement_rate.den > 0
        /\ (w.engagement_rate.num = 0 <=> (w.follower_count = 0 \/ w.total = 0))

RateWitness ==
    \E w \in ghost.rate_log :
        w.follower_count > 0 /\ w.total = 0 /\ w.engagement_rate.num = 0

(* C22: a finished run of ingest_twitter that has the bearer token has     *)
(* looked the follower count up and has upserted the day's Twitter row of  *)
(* the daily metrics, whichever tier supplied the tweets, or none          *)
FollowerLookupInEveryRun ==
    (runs[1].kind = "twitter" /\ runs[1].pc = "done" /\ cfg.twitter_token) =>
        \E m \in daily_metrics :
            /\ m.date = runs[1].day /\ m.platform = "Twitter"
            /\ m.follower_count = runs[1].loc.follower

----------------------------------------------------------------------------
(* Specification: ingest_reddit on feeds whose summaries are longer than   *)
(* the stored content                                                      *)

Filler(n) == [i \in 1..n |-> "x"]

LongEntries ==
    << [id |-> "f1", title |-> <<"x">>, author |-> "ann", link |-> "l1",
        summary |-> Filler(ContentLen) \o <<"Ummatic">>, published |-> "today"],
       [id |-> "f2", title |-> <<"x">>, author |-> "bob", link |-> "l2",
        summary |-> Filler(ContentLen + 1), published |-> "today"],
       [id |-> "f3", title |-> <<"x">>, author |-> "cy", link |-> "l3",
        summary |-> <<"&lt;b&gt;">> \o Filler(ContentLen - 1) \o <<"ummatic", "s">>,
        published |-> "yesterday"],
       [id |-> "", title |-> <<"ummatic">>, author |-> "dee", link |-> "l4",
        summary |-> <<>>, published |-> "today"] >>

StartRedditLong(r) ==
    /\ scope = "filter"
    /\ CanStart(r)
    /\ \E feed \in Deliveries(LongEntries, MaxBatch) :
          runs' = [runs EXCEPT ![r] = Begin(r, "reddit", feed, "rd_loop")]
    /\ ghost' = GhostInit
    /\ UNCHANGED <<envVars, storeVars>>

InitFilter ==
    /\ today = StartDay
    /\ cfg = [reddit_urls |-> TRUE, twitter_token |-> FALSE, apify_token |-> FALSE,
              news_url |-> FALSE]
    /\ scope = "filter"
    /\ news_mentions = {} /\ social_mentions = {} /\ daily_metrics = {}
    /\ sentiment_metrics = {} /\ citations = {} /\ citation_metrics = {}
    /\ weekly_snapshots = {} /\ discovered_subreddits = {}
    /\ env_file = <<>> /\ orch = OrchIdle
    /\ runs = [r \in Procs |-> IdleRun]
    /\ ghost = GhostInit

NextFilter ==
    \/ StartRedditLong(1)
    \/ RedditEntry(1)
    \/ RedditDaily(1)
    \/ RedditSentiment(1)
    \/ CommitRun(1)

SpecFilter == InitFilter /\ [][NextFilter]_vars

(* the match term occurs in the title or anywhere in the full summary *)
TermOccurs(entry) ==
    \/ \E i \in 1..Len(entry.title) : Lower(entry.title[i]) = "ummatic"
    \/ \E i \in 1..Len(entry.summary) : Lower(entry.summary[i]) = "ummatic"

(* C8: once the entry loop has passed an entry that has a post id, the    *)
(* entry's row is in the run's view of the store exactly when the term    *)
(* occurs in its title or its full untruncated summary                    *)
FilterBeforeTruncate ==
    runs[1].kind = "reddit" =>
        \A j \in 1..Len(runs[1].feed) :
            (j < runs[1].i /\ runs[1].feed[j].id # "") =>
                ((\E x \in SocialView(1) : x.post_id = runs[1].feed[j].id)
                    <=> TermOccurs(runs[1].feed[j]))

FilterBeforeTruncateWitness ==
    /\ runs[1].pc = "done" /\ runs[1].kind = "reddit"
    /\ \E j \in 1..Len(runs[1].feed) : runs[1].feed[j].id = "f2"
    /\ \E x \in social_mentions :
          /\ x.post_id = "f1" /\ Len(x.content) = ContentLen
          /\ ~HasUmmatic(LowerText(x.content))

----------------------------------------------------------------------------
(* A whole connector run on a store nobody else touches: the result of     *)
(* the steps above taken without interruption.  A store is the record of   *)
(* the tables the social connectors write.                                 *)

EmptyStore == [social |-> {}, daily |-> {}, sentiment |-> {}]

RECURSIVE RedditLoop(_, _, _, _)
RedditLoop(feed, i, day, acc) ==
    IF i > Len(feed) THEN acc
    ELSE LET entry == feed[i]
             row == RedditRow(entry, day)
             ins == InsertMention(acc.social, row)
         IN  IF entry.id = "" \/ ~RedditRelevant(entry)
             THEN RedditLoop(feed, i + 1, day, acc)
             ELSE RedditLoop(feed, i + 1, day,
                    [social |-> acc.social \cup ins,
                     new |-> acc.new + Cardinality(ins),
                     today_cnt |-> acc.today_cnt +
                        (IF ins # {} /\ row.posted_at = day THEN 1 ELSE 0)])

RunReddit(st, feed, day) ==
    LET res == RedditLoop(feed, 1, day,
                          [social |-> st.social, new |-> 0, today_cnt |-> 0])
    IN  [social |-> res.social,
         daily |-> IF res.today_cnt > 0
                   THEN UpsertByDatePlatform(st.daily,
                            RedditDailyRow(day, res.today_cnt),
                            {"mentions_count", "engagement_rate"})
                   ELSE st.daily,
         sentiment |-> IF res.new > 0
                       THEN update_sentiment_metrics(st.sentiment, st.social,
                                                     day, "Reddit")
                       ELSE st.sentiment]

RECURSIVE TwitterLoop(_, _, _, _, _)
TwitterLoop(tweets, i, day, existing, social) ==
    IF i > Len(tweets) THEN social
    ELSE LET tweet == tweets[i]
         IN  IF \/ tweet.id = ""
                \/ LowerName(tweet.userName) = "ummatics"
                \/ tweet.id \in existing
             THEN TwitterLoop(tweets, i + 1, day, existing, social)
             ELSE TwitterLoop(tweets, i + 1, day, existing,
                    social \cup InsertMention(social, TweetRow(tweet, day)))

(* looked: what the two user lookups of the run answered (0: both failed) *)
RunTwitter(st, feed, looked, day) ==
    LET existing == {x.post_id : x \in {y \in st.social : y.platform = "Twitter"}}
        all_tweets ==
            CASE feed.primary = "200" -> feed.tweets
              [] feed.primary = "exc" /\ feed.apify = "ok" ->
                    SelectSeq(feed.items, LAMBDA t : StrictMatch(t.text))
              [] OTHER -> <<>>
        follower_count ==
            IF looked = 0 THEN PreviousFollowerCount(st.daily) ELSE looked
        social == TwitterLoop(all_tweets, 1, day, existing, st.social)
    IN  IF feed.primary = "exc" /\ ~cfg.apify_token THEN st
        ELSE [social |-> social,
              daily |-> UpsertByDatePlatform(st.daily,
                           TwitterDailyRow(day, follower_count,
                                           DayTotals(social, "Twitter", day)),
                           {"follower_count", "mentions_count", "engagement_rate"}),
              sentiment |-> update_sentiment_metrics(st.sentiment, social,
                                                     day, "Twitter")]

----------------------------------------------------------------------------
(* Specification: two runs of the same connector overlap on the same batch *)

OverlapBatches ==
    {[kind |-> "reddit", feed |-> f] : f \in Deliveries(RedditEntries, MaxBatch)}
        \cup {[kind |-> "twitter", feed |-> f] : f \in TwitterFeeds}

StartOverlap(r) ==
    /\ scope = "overlap"
    /\ runs[r].pc = "idle"
    /\ runs' = [runs EXCEPT ![r] =
          Begin(r, ghost.batch.kind, ghost.batch.feed,
                IF ghost.batch.kind = "reddit" THEN "rd_loop" ELSE "tw_preread")]
    /\ UNCHANGED <<envVars, storeVars, ghost>>

InitOverlap ==
    /\ today = StartDay
    /\ cfg = [reddit_urls |-> TRUE, twitter_token |-> TRUE, apify_token |-> TRUE,
              news_url |-> TRUE]
    /\ scope = "overlap"
    /\ news_mentions = {} /\ social_mentions = {} /\ daily_metrics = {}
    /\ sentiment_metrics = {} /\ citations = {} /\ citation_metrics = {}
    /\ weekly_snapshots = {} /\ discovered_subreddits = {}
    /\ env_file = <<>> /\ orch = OrchIdle
    /\ runs = [r \in Procs |-> IdleRun]
    /\ \E b \in OverlapBatches : ghost = [GhostInit EXCEPT !.batch = b]

NextOverlap ==
    \/ \E r \in Procs : StartOverlap(r)
    \/ \E r \in Procs : RedditEntry(r)
    \/ \E r \in Procs : RedditDaily(r)
    \/ \E r \in Procs : RedditSentiment(r)
    \/ \E r \in Procs : TwitterPreread(r)
    \/ \E r \in Procs : TwitterPrimary(r)
    \/ \E r \in Procs : TwitterApify(r)
    \/ \E r \in Procs : TwitterFollower(r)
    \/ \E r \in Procs : TwitterTweet(r)
    \/ \E r \in Procs : TwitterSelect(r)
    \/ \E r \in Procs : TwitterUpsert(r)
    \/ \E r \in Procs : CommitRun(r)
    \/ \E r \in Procs : TwitterSentiment(r)

SpecOverlap == InitOverlap /\ [][NextOverlap]_vars

BothDone == \A r \in Procs : runs[r].pc = "done"

Store ==
    [social |-> social_mentions, daily |-> daily_metrics,
     sentiment |-> sentiment_metrics]

RunOf(st, r) ==
    IF ghost.batch.kind = "reddit" THEN RunReddit(st, ghost.batch.feed, today)
    ELSE RunTwitter(st, ghost.batch.feed, runs[r].loc.looked, today)

(* C3: when two overlapping runs on the same batch have finished, the     *)
(* store (mentions, daily metrics, sentiment metrics) is what the two     *)
(* runs leave when one executes after the other                           *)
OverlapEqualsSequential ==
    BothDone =>
        Store \in {RunOf(RunOf(EmptyStore, 1), 2), RunOf(RunOf(EmptyStore, 2), 1)}

(* C29: once a Twitter row of the daily metrics holds a positive follower  *)
(* count, no step stores a Twitter row whose follower count is 0           *)
PositiveFollowersNeverZeroed ==
    [][ (\E x \in daily_metrics : x.platform = "Twitter" /\ x.follower_count > 0)
          => \A y \in daily_metrics' \ daily_metrics :
                y.platform = "Twitter" => y.follower_count > 0 ]_vars

(* C4: of two finished runs that delivered the same unseen record,        *)
(* exactly one counted it as new and the other counted it as a duplicate  *)
CountedNewOnceElseDuplicate ==
    (BothDone /\ ghost.batch.kind = "twitter") =>
        \A x \in social_mentions :
            \E r \in Procs :
                /\ x.post_id \in runs[r].loc.newk
                /\ \A q \in Procs \ {r} :
                      x.post_id \notin runs[q].loc.newk /\ x.post_id \in runs[q].loc.dupk

----------------------------------------------------------------------------
(* run_full_ingestion: the stages in the order of its statements           *)

Stages ==
    <<"discover", "persist", "news", "reddit", "twitter", "openalex", "snapshot">>

NextStage(stage) ==
    LET i == CHOOSE k \in 1..Len(Stages) : Stages[k] = stage
    IN  IF i = Len(Stages) THEN "end" ELSE Stages[i + 1]

(* variant in which ingest_reddit lets its exceptions out *)
StageCatchesButReddit(stage) == stage # "reddit"

(* the body of every stage function is inside try / except Exception *)
StageCatches(stage) ==
    stage \in {"discover", "persist", "news", "reddit", "twitter", "openalex",
               "snapshot"}

(* where run_full_ingestion goes on after the stage: an exception that     *)
(* leaves the stage is taken by the handler around all the stages          *)
StageEnds(stage, raised) ==
    IF raised /\ ~StageCatches(stage) THEN "end" ELSE NextStage(stage)

Entered(stage, raised) ==
    [orch EXCEPT !.pc = StageEnds(stage, raised),
                 !.log = Append(orch.log, stage),
                 !.failed = IF raised THEN orch.failed \cup {stage} ELSE orch.failed]

(* the names the search results and the configuration carry: "s1" is the  *)
(* configured community, the capitalised names are as links spell them     *)
SearchNames == {"s1", "S2", "All", "popular"}

(* the allow-list of the targeted searches (one of its fifteen names) *)
target_subreddits == {"Muslim"}

StopList == {"all", "popular", "announcements", "reddit"}

(* str.lower() on a community name *)
SubredditLower(name) ==
    CASE name = "S2"            -> "s2"
      [] name = "All"           -> "all"
      [] name = "Muslim"        -> "muslim"
      [] OTHER                  -> name

(* variant that tests the stop-list before lower-casing *)
FromLinksFilterFirst(names) == {SubredditLower(n) : n \in names \ StopList}

(* match.group(1).lower(), then the stop-list *)
FromLinks(names) == {SubredditLower(n) : n \in names} \ StopList

(* the names of a result page that the stop-list holds back *)
Rejected(names) == {n \in names : SubredditLower(n) \in StopList}

(* the sitewide results and the allow-list communities that had results *)
Discovered(sitewide, hits) == FromLinks(sitewide) \cup {SubredditLower(s) : s \in hits}

(* os.getenv('REDDIT_RSS_URLS') of the running process *)
CurrentSubreddits == IF cfg.reddit_urls THEN {"s1"} ELSE {}

(* variant that reads the configuration file again *)
RssUrlsFromFile == CurrentSubreddits \cup {env_file[i] : i \in 1..Len(env_file)}

(* REDDIT_RSS_URLS: the value the module read when it was imported *)
REDDIT_RSS_URLS == CurrentSubreddits

StoredNames == {x.subreddit_name : x \in discovered_subreddits}

(* INSERT INTO discovered_subreddits .. ON CONFLICT (subreddit_name)       *)
(* DO UPDATE SET last_checked                                              *)
SaveSubreddits(table, names) ==
    table \cup {[subreddit_name |-> n, is_active |-> TRUE] :
                   n \in names \ {x.subreddit_name : x \in table}}

(* google_search_subreddits: discovered - current - db_subreddits *)
NewDeltaMinusStored(discovered, current, stored) == (discovered \ current) \ stored

(* new_subreddits = discovered_subreddits - current_subreddits *)
NewDelta(discovered, current, stored) == discovered \ current

(* list(a_set): the elements in some order *)
ListsOf(S) ==
    {q \in SeqsUpTo(S, Cardinality(S)) :
        Len(q) = Cardinality(S) /\ \A x \in S : \E i \in 1..Len(q) : q[i] = x}

OrchStart ==
    /\ scope = "orch" /\ orch.pc = "idle"
    /\ orch' = [orch EXCEPT !.pc = "discover"]
    /\ UNCHANGED <<today, cfg, scope, env_file, storeVars, runs, ghost>>

(* new_subreddits = discover_new_subreddits(): the new names are saved in  *)
(* the function's own transaction; an exception returns []                 *)
discover_new_subreddits ==
    /\ orch.pc = "discover"
    /\ \E sitewide \in SUBSET SearchNames, hits \in SUBSET target_subreddits,
          raised \in BOOLEAN :
          LET discovered == Discovered(sitewide, hits)
              new == IF raised THEN {}
                     ELSE NewDelta(discovered, CurrentSubreddits, StoredNames)
          IN  /\ \E lst \in ListsOf(new) :
                    orch' = [Entered("discover", raised) EXCEPT
                                !.new_subreddits = lst,
                                !.discovered = IF raised THEN {} ELSE discovered,
                                !.stored_before = StoredNames,
                                !.rejected = IF raised THEN {}
                                             ELSE Rejected(sitewide)]
              /\ discovered_subreddits' = SaveSubreddits(discovered_subreddits, new)
    /\ UNCHANGED <<today, cfg, scope, env_file, news_mentions, social_mentions,
                   daily_metrics, sentiment_metrics, citations, citation_metrics,
                   weekly_snapshots, runs, ghost>>

(* if new_subreddits: update_reddit_rss_urls(new_subreddits) *)
update_reddit_rss_urls ==
    /\ orch.pc = "persist"
    /\ \E raised \in BOOLEAN :
          /\ raised => orch.new_subreddits # <<>>
          /\ env_file' = IF raised THEN env_file ELSE env_file \o orch.new_subreddits
          /\ orch' = [Entered("persist", raised) EXCEPT
                         !.discovered = {}, !.stored_before = {}, !.rejected = {},
                         !.appended = IF raised THEN {}
                                      ELSE {orch.new_subreddits[i] :
                                               i \in 1..Len(orch.new_subreddits)}]
    /\ UNCHANGED <<today, cfg, scope, storeVars, runs, ghost>>

CallStage(stage) ==
    /\ orch.pc = stage /\ runs[1].pc = "idle"
    /\ orch' = [orch EXCEPT !.log = Append(orch.log, stage),
                            !.fetched = IF stage = "reddit" THEN REDDIT_RSS_URLS ELSE @]
    /\ ghost' = GhostInit
    /\ UNCHANGED <<today, cfg, scope, env_file, storeVars>>

OrchNews == CallStage("news") /\ BeginNews(1, OrchBatch)
OrchReddit == CallStage("reddit") /\ BeginReddit(1, OrchBatch)
OrchTwitter == CallStage("twitter") /\ BeginTwitter(1, OrchBatch)
OrchOpenAlex == CallStage("openalex") /\ BeginOpenAlex(1, OrchBatch)

(* an exception inside the running connector: its connection is dropped    *)
(* with the transaction open                                               *)
Raise(r) ==
    /\ scope = "orch"
    /\ runs[r].pc \notin {"idle", "done", "crashed"}
    /\ runs' = [runs EXCEPT ![r] =
          IF StageCatches(orch.pc) THEN [runs[r] EXCEPT !.pc = "done", !.tx = EmptyTx]
          ELSE IdleRun]
    /\ orch' = [orch EXCEPT !.pc = IF StageCatches(orch.pc) THEN orch.pc ELSE "end",
                            !.failed = orch.failed \cup {orch.pc}]
    /\ UNCHANGED <<today, cfg, scope, env_file, storeVars, ghost>>

(* the connector returns to run_full_ingestion *)
OrchReturn ==
    /\ orch.pc \in {"news", "reddit", "twitter", "openalex"}
    /\ runs[1].pc = "done"
    /\ runs' = [runs EXCEPT ![1] = IdleRun]
    /\ orch' = [orch EXCEPT !.pc = NextStage(orch.pc)]
    /\ UNCHANGED <<today, cfg, scope, env_file, storeVars, ghost>>

SnapshotRow(monday) ==
    LET metric == {x \in citation_metrics : x.week_start_date = monday}
    IN  [week_start_date |-> monday, week_end_date |-> monday + 6,
         total_news_mentions |->
            Cardinality({x \in news_mentions : x.week_start_date = monday}),
         total_social_mentions |->
            Cardinality({x \in social_mentions : x.week_start_date = monday}),
         total_citations |->
            IF metric = {} THEN 0 ELSE (CHOOSE x \in metric : TRUE).total_citations,
         total_website_sessions |-> 0]

update_weekly_snapshot ==
    /\ orch.pc = "snapshot"
    /\ \E raised \in BOOLEAN :
          /\ weekly_snapshots' =
                IF raised THEN weekly_snapshots
                ELSE {x \in weekly_snapshots : x.week_start_date # MondayOf(today)}
                        \cup {SnapshotRow(MondayOf(today))}
          /\ orch' = Entered("snapshot", raised)
    /\ UNCHANGED <<today, cfg, scope, env_file, news_mentions, social_mentions,
                   daily_metrics, sentiment_metrics, citations, citation_metrics,
                   discovered_subreddits, runs, ghost>>

InitOrch ==
    /\ today = StartDay
    /\ cfg \in Configs
    /\ scope = "orch"
    /\ news_mentions = {} /\ social_mentions = {} /\ daily_metrics = {}
    /\ sentiment_metrics = {} /\ citations = {} /\ citation_metrics = {}
    /\ weekly_snapshots = {} /\ discovered_subreddits = {}
    /\ env_file = <<>> /\ orch = OrchIdle
    /\ runs = [r \in Procs |-> IdleRun]
    /\ ghost = GhostInit

NextOrch ==
    \/ OrchStart
    \/ discover_new_subreddits
    \/ update_reddit_rss_urls
    \/ OrchNews
    \/ NewsEntry(1)
    \/ NewsLoopEnd(1)
    \/ OrchReddit
    \/ RedditEntry(1)
    \/ RedditDaily(1)
    \/ RedditSentiment(1)
    \/ OrchTwitter
    \/ TwitterPreread(1)
    \/ TwitterPrimary(1)
    \/ TwitterApify(1)
    \/ TwitterFollower(1)
    \/ TwitterTweet(1)
    \/ TwitterSelect(1)
    \/ TwitterUpsert(1)
    \/ TwitterSentiment(1)
    \/ OrchOpenAlex
    \/ OpenAlexWork(1)
    \/ OpenAlexMetrics(1)
    \/ CommitRun(1)
    \/ Raise(1)
    \/ OrchReturn
    \/ update_weekly_snapshot

SpecOrch == InitOrch /\ [][NextOrch]_vars

(* C5: the stages are entered once each in the fixed order, a failure in  *)
(* a stage does not keep a later stage from running, and the run is never *)
(* stuck before its end                                                   *)
StagesOnceInOrder ==
    /\ Len(orch.log) <= Len(Stages)
    /\ \A i \in 1..Len(orch.log) : orch.log[i] = Stages[i]
    /\ orch.pc = "end" => orch.log = Stages
    /\ (scope = "orch" /\ orch.pc # "end") => ENABLED NextOrch

StagesOnceInOrderWitness ==
    /\ orch.pc = "end" /\ orch.log = Stages
    /\ {"discover", "news", "twitter"} \subseteq orch.failed

----------------------------------------------------------------------------
(* Specification: the scheduler's ingestion job run after run in one       *)
(* process, with the weekly web-search discovery job; the sources answer   *)
(* with empty results, so that only the discovery and the set of feeds     *)
(* differ between behaviours                                               *)

(* names in the links of the web search's result page *)
GoogleNames == {"S2", "All"}

(* google_search_subreddits: every discovered name is saved, the new ones  *)
(* (not configured, not stored) are returned and logged by the job.  Its   *)
(* cron time (Sunday 10:00) lies between the ingestion job's times (8:00,  *)
(* 14:00, 20:00), so it is taken between two runs of the orchestrator      *)
google_search_subreddits ==
    /\ scope = "orch"
    /\ orch.pc \in {"idle", "end"}
    /\ \E links \in SUBSET GoogleNames, raised \in BOOLEAN :
          LET discovered == FromLinks(links)
              new == NewDeltaMinusStored(discovered, CurrentSubreddits, StoredNames)
          IN  /\ discovered_subreddits' =
                    IF raised THEN discovered_subreddits
                    ELSE SaveSubreddits(discovered_subreddits, discovered)
              /\ ghost' = [ghost EXCEPT !.google =
                    {[discovered |-> IF raised THEN {} ELSE discovered,
                      new |-> IF raised THEN {} ELSE new,
                      stored_before |-> StoredNames,
                      rejected |-> IF raised THEN {} ELSE Rejected(links)]}]
    /\ UNCHANGED <<envVars, news_mentions, social_mentions, daily_metrics,
                   sentiment_metrics, citations, citation_metrics, weekly_snapshots,
                   runs>>

(* the cron trigger starts run_full_ingestion again in the same process *)
ScheduledRun ==
    /\ scope = "orch" /\ orch.pc = "end" /\ orch.run < MaxRuns
    /\ orch' = [OrchIdle EXCEPT !.pc = "discover", !.run = orch.run + 1,
                                !.appended_before = orch.appended]
    /\ ghost' = GhostInit
    /\ UNCHANGED <<today, cfg, scope, env_file, storeVars, runs>>

QuietReddit == CallStage("reddit") /\ BeginReddit(1, 0)
QuietOpenAlex == CallStage("openalex") /\ BeginOpenAlex(1, 0)

DiscoveryConfigs ==
    { [reddit_urls |-> TRUE, twitter_token |-> FALSE, apify_token |-> FALSE,
       news_url |-> FALSE],
      [reddit_urls |-> FALSE, twitter_token |-> FALSE, apify_token |-> FALSE,
       news_url |-> FALSE] }

InitDiscovery ==
    /\ today = StartDay
    /\ cfg \in DiscoveryConfigs
    /\ scope = "orch"
    /\ news_mentions = {} /\ social_mentions = {} /\ daily_metrics = {}
    /\ sentiment_metrics = {} /\ citations = {} /\ citation_metrics = {}
    /\ weekly_snapshots = {} /\ discovered_subreddits = {}
    /\ env_file = <<>> /\ orch = OrchIdle
    /\ runs = [r \in Procs |-> IdleRun]
    /\ ghost = GhostInit

NextDiscovery ==
    \/ OrchStart
    \/ discover_new_subreddits
    \/ update_reddit_rss_urls
    \/ OrchNews
    \/ QuietReddit
    \/ RedditDaily(1)
    \/ RedditSentiment(1)
    \/ OrchTwitter
    \/ QuietOpenAlex
    \/ OpenAlexMetrics(1)
    \/ CommitRun(1)
    \/ Raise(1)
    \/ OrchReturn
    \/ update_weekly_snapshot
    \/ ScheduledRun
    \/ google_search_subreddits

SpecDiscovery == InitDiscovery /\ [][NextDiscovery]_vars

SeqSet(q) == {q[i] : i \in 1..Len(q)}

StageEntered(stage) == \E i \in 1..Len(orch.log) : orch.log[i] = stage

(* C14: no name of the stop-list, however its letters were cased in the    *)
(* result link, is stored in discovered_subreddits, returned as new by a   *)
(* discovery, or appended to the configuration file                        *)
NoStopListedName ==
    \A n \in StoredNames \cup SeqSet(orch.new_subreddits) \cup SeqSet(env_file)
                \cup UNION {g.new \cup g.discovered : g \in ghost.google} :
        SubredditLower(n) \notin StopList

NoStopListedNameWitness ==
    /\ orch.pc = "persist" /\ orch.rejected = {"All", "popular"}
    /\ orch.new_subreddits # <<>>
    /\ \E x \in discovered_subreddits : x.subreddit_name = "s2"
    /\ StoredNames \cap StopList = {}

(* C30: the feed list of the configuration file names each community at   *)
(* most once, the configured one included, and no step takes a feed out    *)
(* of it                                                                   *)
ConfigNamesEachFeedOnce ==
    /\ [](/\ Cardinality(SeqSet(env_file)) = Len(env_file)
          /\ SeqSet(env_file) \cap CurrentSubreddits = {})
    /\ [][SeqSet(env_file) \subseteq SeqSet(env_file')]_vars

(* C15: the feeds ingest_reddit goes through in a run are the configured   *)
(* ones as they were before the run's discovery; none of the names the     *)
(* run's discovery returned as new is among them                           *)
FetchedIsConfigBefore ==
    StageEntered("reddit") =>
        /\ orch.fetched = CurrentSubreddits
        /\ orch.fetched \cap SeqSet(orch.new_subreddits) = {}
        /\ orch.fetched \cap orch.appended = {}

FetchedIsConfigBeforeWitness ==
    /\ StageEntered("reddit") /\ orch.pc = "end" /\ orch.run = 2
    /\ orch.fetched # {} /\ orch.appended # {}
    /\ "reddit" \notin orch.failed

(* C16: what a run appended to the configuration is fetched by             *)
(* ingest_reddit in the next scheduled run                                 *)
AppendedFetchedNextRun ==
    (orch.run > 1 /\ StageEntered("reddit") /\ orch.failed = {}) =>
        orch.appended_before \subseteq orch.fetched

(* C17: the names a discovery returns as new are the discovered names      *)
(* without the configured ones and without the ones already stored         *)
NewIsDeltaOfBoth ==
    /\ (orch.pc = "persist" /\ "discover" \notin orch.failed) =>
          SeqSet(orch.new_subreddits) =
              (orch.discovered \ CurrentSubreddits) \ orch.stored_before
    /\ \A g \in ghost.google :
          g.new = (g.discovered \ CurrentSubreddits) \ g.stored_before

----------------------------------------------------------------------------
(* Specification: a connector runs on a store that holds a mention of the  *)
(* other platform under a post id its own source delivers too              *)

StoredMention(platform, post_id) ==
    [id |-> 1, week_start_date |-> MondayOf(StartDay - 1), platform |-> platform,
     post_id |-> post_id, author |-> "zed", content |-> <<"ummatic", "s">>,
     post_url |-> "l9", posted_at |-> StartDay - 1, likes |-> 0, retweets |-> 0,
     replies |-> 0, sentiment |-> "neutral", sentiment_score |-> 0, analyzed |-> TRUE]

InitCross ==
    /\ today = StartDay
    /\ cfg = [reddit_urls |-> TRUE, twitter_token |-> TRUE, apify_token |-> TRUE,
              news_url |-> FALSE]
    /\ \/ scope = "reddit" /\ social_mentions = {StoredMention("Twitter", "r1")}
       \/ scope = "twitter" /\ social_mentions = {StoredMention("Reddit", "p1")}
    /\ news_mentions = {} /\ daily_metrics = {}
    /\ sentiment_metrics = {} /\ citations = {} /\ citation_metrics = {}
    /\ weekly_snapshots = {} /\ discovered_subreddits = {}
    /\ env_file = <<>> /\ orch = OrchIdle
    /\ runs = [r \in Procs |-> IdleRun]
    /\ ghost = GhostInit

NextCross ==
    \/ StartReddit(1)
    \/ RedditEntry(1)
    \/ RedditDaily(1)
    \/ RedditSentiment(1)
    \/ StartTwitter(1)
    \/ TwitterPreread(1)
    \/ TwitterPrimary(1)
    \/ TwitterApify(1)
    \/ TwitterFollower(1)
    \/ TwitterTweet(1)
    \/ TwitterSelect(1)
    \/ TwitterUpsert(1)
    \/ TwitterSentiment(1)
    \/ CommitRun(1)

SpecCross == InitCross /\ [][NextCross]_vars

PlatformOf(kind) == IF kind = "reddit" THEN "Reddit" ELSE "Twitter"

(* C19: the key of a mention is (platform, post id): a record whose post   *)
(* id is stored only under the other platform is stored too                *)
SamePostIdBothStored ==
    runs[1].pc = "done" =>
        \A k \in ghost.done_keys :
            \E x \in social_mentions :
                x.post_id = k /\ x.platform = PlatformOf(runs[1].kind)

----------------------------------------------------------------------------
(* Specification: the external calls of one run_full_ingestion, each as a  *)
(* request that the service answers, or that its timeout ends, or that     *)
(* stays open                                                              *)

(* the blocking calls in the order the run reaches them *)
ExternalCalls ==
    <<"sitewide", "targeted", "alerts", "reddit_feed", "twitter_search", "apify",
      "user_lookup", "user_lookup_again", "openalex">>

(* the timeout argument of the call in seconds, NULL where none is passed *)
CallTimeout(call) ==
    CASE call \in {"sitewide", "targeted", "reddit_feed"} -> 30
      [] call = "apify"                                   -> 120
      [] OTHER                                            -> NULL

(* how a request can end: a good answer, an HTTP error status, an          *)
(* exception of the client (connection error, expired timeout)             *)
Outcomes == {"ok", "status", "exception"}

OutcomeOf(log, call) ==
    IF \E i \in 1..Len(log) : log[i][1] = call
    THEN LET i == CHOOSE j \in 1..Len(log) : log[j][1] = call IN log[i][2]
    ELSE "none"

(* whether the run, with the outcomes so far, makes the call *)
CallMade(call, log) ==
    CASE call = "sitewide"       -> TRUE
      [] call = "targeted"       -> OutcomeOf(log, "sitewide") # "exception"
      [] call = "alerts"         -> cfg.news_url
      [] call = "reddit_feed"    -> cfg.reddit_urls
      [] call = "twitter_search" -> cfg.twitter_token
      [] call = "apify"          ->
            cfg.apify_token /\ OutcomeOf(log, "twitter_search") = "exception"
      [] call = "user_lookup"    ->
            /\ cfg.twitter_token
            /\ ~(OutcomeOf(log, "twitter_search") = "exception" /\ ~cfg.apify_token)
      [] call = "user_lookup_again" ->
            OutcomeOf(log, "user_lookup") \in {"status", "exception"}
      [] OTHER                   -> TRUE

RECURSIVE CallFrom(_, _)
CallFrom(k, log) ==
    IF k > Len(ExternalCalls) THEN "end"
    ELSE IF CallMade(ExternalCalls[k], log) THEN ExternalCalls[k]
    ELSE CallFrom(k + 1, log)

CallAfter(call, log) ==
    CallFrom(1 + (CHOOSE k \in 1..Len(ExternalCalls) : ExternalCalls[k] = call), log)

(* the run issues its first request *)
RunStart ==
    /\ scope = "timeouts" /\ orch.pc = "idle"
    /\ orch' = [orch EXCEPT !.pc = CallFrom(1, <<>>)]
    /\ UNCHANGED <<today, cfg, scope, env_file, storeVars, runs, ghost>>

(* the service answers the open request, and the run goes on to its next *)
Answers ==
    /\ scope = "timeouts" /\ orch.pc \notin {"idle", "end"}
    /\ \E outcome \in Outcomes :
          LET log == Append(orch.log, <<orch.pc, outcome>>)
          IN  orch' = [orch EXCEPT !.log = log, !.pc = CallAfter(orch.pc, log)]
    /\ UNCHANGED <<today, cfg, scope, env_file, storeVars, runs, ghost>>

(* the timeout of the open request expires: the client raises *)
TimesOut ==
    /\ scope = "timeouts" /\ orch.pc \notin {"idle", "end"}
    /\ CallTimeout(orch.pc) # NULL
    /\ LET log == Append(orch.log, <<orch.pc, "exception">>)
       IN  orch' = [orch EXCEPT !.log = log, !.pc = CallAfter(orch.pc, log),
                                !.failed = orch.failed \cup {orch.pc}]
    /\ UNCHANGED <<today, cfg, scope, env_file, storeVars, runs, ghost>>

InitTimeouts ==
    /\ today = StartDay
    /\ cfg \in Configs \cup DiscoveryConfigs
    /\ scope = "timeouts"
    /\ news_mentions = {} /\ social_mentions = {} /\ daily_metrics = {}
    /\ sentiment_metrics = {} /\ citations = {} /\ citation_metrics = {}
    /\ weekly_snapshots = {} /\ discovered_subreddits = {}
    /\ env_file = <<>> /\ orch = OrchIdle
    /\ runs = [r \in Procs |-> IdleRun]
    /\ ghost = GhostInit

NextTimeouts ==
    \/ RunStart
    \/ Answers
    \/ TimesOut

(* the program's own steps are taken when they can be; no service is      *)
(* obliged to answer                                                       *)
SpecTimeouts ==
    InitTimeouts /\ [][NextTimeouts]_vars /\ WF_vars(RunStart) /\ WF_vars(TimesOut)

(* C20: every run reaches its end, whether or not the services answer *)
RunEventuallyEnds == <>(orch.pc = "end")

----------------------------------------------------------------------------
(* Sentiment: the two classifier tiers, the backfill of rows stored        *)
(* without an analysis, and the recomputation of the per-day metrics.      *)
(* Every writer sets sentiment and sentiment_score together, so one flag   *)
(* "analyzed" says that both are non-null.                                 *)

Labels == {"positive", "negative", "neutral"}

(* the result of a call: a (label, score) pair, or an exception that left  *)
(* the block                                                                *)
Neutral == [raised |-> FALSE, label |-> "neutral", score |-> 0]
Raised == [raised |-> TRUE, label |-> "", score |-> 0]

(* what one classifier call meets: the USE_TRANSFORMER flag, the steps     *)
(* that fail, and the label and confidence (in hundredths) the pipeline    *)
(* answers with; "none" is a label that is not a string                    *)
PipeLabels ==
    {"LABEL_0", "LABEL_1", "LABEL_2", "LABEL_9", "LABEL_x", "POSITIVE", "Negative",
     "neu", "mixed", "none"}

ClassifierEnvs ==
    {[use_transformer |-> FALSE, faults |-> f, label |-> "none", score |-> 0] :
        f \in {{}, {"textblob"}}}
    \cup {[use_transformer |-> TRUE, faults |-> f, label |-> "POSITIVE", score |-> 99] :
        f \in {{"import"}, {"import", "textblob"}, {"load"}, {"pipe"}, {"empty"},
               {"score"}}}
    \cup {[use_transformer |-> TRUE, faults |-> {}, label |-> l, score |-> 99] :
        l \in PipeLabels}

(* the label normalisation of analyze_sentiment_transformer *)
NormalizeLabel(label) ==
    CASE label = "none"                -> "neutral"
      [] label \in {"POSITIVE"}        -> "positive"
      [] label \in {"Negative"}        -> "negative"
      [] label \in {"neu"}             -> "neutral"
      [] label = "LABEL_0"             -> "negative"
      [] label = "LABEL_1"             -> "neutral"
      [] label = "LABEL_2"             -> "positive"
      [] OTHER                         -> "neutral"

(* except Exception: return 'neutral', 0.0 *)
UncaughtResult(res) == res

CaughtResult(res) == IF res.raised THEN Neutral ELSE res

TransformerBody(text, env) ==
    IF text = <<>> THEN Neutral
    ELSE IF "load" \in env.faults THEN Neutral
    ELSE IF "pipe" \in env.faults THEN Raised
    ELSE IF "empty" \in env.faults THEN Neutral
    ELSE IF "score" \in env.faults THEN Raised
    ELSE [raised |-> FALSE, label |-> NormalizeLabel(env.label), score |-> env.score]

analyze_sentiment_transformer(text, env) == CaughtResult(TransformerBody(text, env))

(* analyze_sentiment: the model tier when the flag is set and its module   *)
(* imports, the lexical tier otherwise                                     *)
AnalyzeBody(text, env) ==
    IF env.use_transformer /\ "import" \notin env.faults
    THEN analyze_sentiment_transformer(text, env)
    ELSE IF text = <<>> THEN Neutral
    ELSE IF "textblob" \in env.faults THEN Raised
    ELSE LET polarity == Polarity(CleanText(text))
         IN  [raised |-> FALSE,
              label |-> IF polarity > 10 THEN "positive"
                        ELSE IF polarity < 0 - 10 THEN "negative"
                        ELSE "neutral",
              score |-> polarity]

analyze_sentiment(text, env) == CaughtResult(AnalyzeBody(text, env))

(* rows of social_mentions stored earlier, some of them without analysis *)
StoredMentions ==
    { [id |-> 1, platform |-> "Twitter", post_id |-> "t1", content |-> <<"good">>,
       posted_at |-> StartDay, sentiment |-> "positive", sentiment_score |-> 50,
       analyzed |-> TRUE],
      [id |-> 2, platform |-> "Twitter", post_id |-> "t2", content |-> <<"meh">>,
       posted_at |-> StartDay, sentiment |-> "neutral", sentiment_score |-> 10,
       analyzed |-> TRUE],
      [id |-> 3, platform |-> "Twitter", post_id |-> "t3", content |-> <<"bad">>,
       posted_at |-> StartDay, sentiment |-> "", sentiment_score |-> NULL,
       analyzed |-> FALSE],
      [id |-> 4, platform |-> "Twitter", post_id |-> "t4", content |-> <<>>,
       posted_at |-> StartDay - 1, sentiment |-> "", sentiment_score |-> NULL,
       analyzed |-> FALSE],
      [id |-> 5, platform |-> "Reddit", post_id |-> "r5", content |-> <<"good">>,
       posted_at |-> StartDay, sentiment |-> "", sentiment_score |-> NULL,
       analyzed |-> FALSE],
      [id |-> 6, platform |-> "Reddit", post_id |-> "r6", content |-> <<"bad">>,
       posted_at |-> StartDay, sentiment |-> "negative", sentiment_score |-> 0 - 50,
       analyzed |-> TRUE] }

SentimentDates == {StartDay - 1, StartDay}
Platforms == {"Twitter", "Reddit"}

(* update_sentiment_metrics of regenerate_historical_metrics.py: nothing   *)
(* is written for a partition without rows                                 *)
RegeneratedRow(mentions, date, platform) ==
    LET rows == {x \in mentions : x.platform = platform /\ x.posted_at = date}
        valid_scores == {x \in rows : x.analyzed}
    IN  [date |-> date, platform |-> platform,
         positive_count |-> Cardinality({x \in rows : x.sentiment = "positive"}),
         negative_count |-> Cardinality({x \in rows : x.sentiment = "negative"}),
         neutral_count |-> Cardinality({x \in rows : x.sentiment = "neutral"}),
         unanalyzed_count |-> Cardinality({x \in rows : x.sentiment = ""}),
         average_sentiment_score |->
            IF valid_scores = {} THEN Ratio(0, 1)
            ELSE Ratio(SumScores(valid_scores), Cardinality(valid_scores))]

regenerate_sentiment_metrics(table, mentions, date, platform) ==
    IF {x \in mentions : x.platform = platform /\ x.posted_at = date} = {} THEN table
    ELSE UpsertByDatePlatform(table, RegeneratedRow(mentions, date, platform),
            {"positive_count", "negative_count", "neutral_count", "unanalyzed_count",
             "average_sentiment_score"})

(* one call of ingestion.update_sentiment_metrics(date, platform) *)
SentimentUpdate ==
    /\ scope = "sentiment"
    /\ \E date \in SentimentDates, platform \in Platforms :
          /\ sentiment_metrics' =
                update_sentiment_metrics(sentiment_metrics, social_mentions, date, platform)
          /\ ghost' = [ghost EXCEPT !.calls = {}, !.updated = {<<date, platform>>},
                                          !.swept = FALSE]
    /\ UNCHANGED <<envVars, news_mentions, social_mentions, daily_metrics, citations,
                   citation_metrics, weekly_snapshots, discovered_subreddits, runs>>

(* regenerate_all_metrics: every date that has Twitter mentions *)
RECURSIVE RegenerateDates(_, _, _)
RegenerateDates(table, mentions, dates) ==
    IF dates = {} THEN table
    ELSE LET d == CHOOSE x \in dates : TRUE
         IN  RegenerateDates(regenerate_sentiment_metrics(table, mentions, d, "Twitter"),
                             mentions, dates \ {d})

regenerate_all_metrics ==
    LET dates == {x.posted_at : x \in {y \in social_mentions : y.platform = "Twitter"}}
    IN  /\ scope = "sentiment"
        /\ dates # {}
        /\ sentiment_metrics' = RegenerateDates(sentiment_metrics, social_mentions, dates)
        /\ ghost' = [ghost EXCEPT !.calls = {}, !.swept = FALSE,
                                  !.updated = {<<d, "Twitter">> : d \in dates}]
        /\ UNCHANGED <<envVars, news_mentions, social_mentions, daily_metrics, citations,
                       citation_metrics, weekly_snapshots, discovered_subreddits, runs>>

(* run_sentiment_transformer.main: classify every row without analysis,    *)
(* commit, then recompute the touched dates for the default platform       *)
RECURSIVE UpdateDates(_, _, _)
UpdateDates(table, mentions, dates) ==
    IF dates = {} THEN table
    ELSE LET d == CHOOSE x \in dates : TRUE
         IN  UpdateDates(update_sentiment_metrics(table, mentions, d, "Twitter"),
                         mentions, dates \ {d})

Analyzed(x, env) ==
    LET res == analyze_sentiment(x.content, env)
    IN  IF res.raised THEN x
        ELSE [x EXCEPT !.sentiment = res.label, !.sentiment_score = res.score,
                       !.analyzed = TRUE]

SentimentBackfill ==
    LET rows == {x \in social_mentions : ~x.analyzed}
        dates_touched == {x.posted_at : x \in rows}
    IN  /\ scope = "sentiment"
        /\ rows # {}
        /\ \E env \in ClassifierEnvs :
              LET updated == {Analyzed(x, env) : x \in social_mentions}
              IN  /\ social_mentions' = updated
                  /\ sentiment_metrics' =
                        UpdateDates(sentiment_metrics, updated, dates_touched)
                  /\ ghost' = [ghost EXCEPT
                        !.calls = {[text |-> x.content, env |-> env,
                                    result |-> analyze_sentiment(x.content, env)] :
                                       x \in rows},
                        !.updated = {<<d, "Twitter">> : d \in dates_touched},
                        !.swept = FALSE]
        /\ UNCHANGED <<envVars, news_mentions, daily_metrics, citations,
                       citation_metrics, weekly_snapshots, discovered_subreddits, runs>>

(* scheduler.scheduled_sentiment: update_sentiment_metrics(today - i) for   *)
(* i in range(0, 7); the platform argument is left to its default          *)
SweepDays == 7

DefaultPlatform == "Twitter"

RECURSIVE SweepFrom(_, _, _)
SweepFrom(table, mentions, i) ==
    IF i >= SweepDays THEN table
    ELSE SweepFrom(update_sentiment_metrics(table, mentions, today - i, DefaultPlatform),
                   mentions, i + 1)

scheduled_sentiment ==
    /\ scope = "sentiment"
    /\ sentiment_metrics' = SweepFrom(sentiment_metrics, social_mentions, 0)
    /\ ghost' = [ghost EXCEPT !.calls = {}, !.swept = TRUE,
                              !.updated = {<<today - i, DefaultPlatform>> :
                                              i \in 0..(SweepDays - 1)}]
    /\ UNCHANGED <<envVars, news_mentions, social_mentions, daily_metrics, citations,
                   citation_metrics, weekly_snapshots, discovered_subreddits, runs>>

InitSentiment ==
    /\ today = StartDay
    /\ cfg = [reddit_urls |-> FALSE, twitter_token |-> FALSE, apify_token |-> FALSE,
              news_url |-> FALSE]
    /\ scope = "sentiment"
    /\ social_mentions \in SUBSET StoredMentions
    /\ news_mentions = {} /\ daily_metrics = {}
    /\ sentiment_metrics = {} /\ citations = {} /\ citation_metrics = {}
    /\ weekly_snapshots = {} /\ discovered_subreddits = {}
    /\ env_file = <<>> /\ orch = OrchIdle
    /\ runs = [r \in Procs |-> IdleRun]
    /\ ghost = GhostInit

NextSentiment ==
    \/ SentimentUpdate
    \/ regenerate_all_metrics
    \/ SentimentBackfill
    \/ scheduled_sentiment

SpecSentiment == InitSentiment /\ [][NextSentiment]_vars

(* the rows of a partition that carry a score *)
ScoredRows(date, platform) ==
    {x \in social_mentions :
        x.platform = platform /\ x.posted_at = date /\ x.sentiment_score # NULL}

(* C11: right after a recomputation of (date, platform) the stored average *)
(* is the arithmetic mean of the scores of exactly the partition's rows    *)
(* that have a score; rows without a score do not enter the mean           *)
AverageIsMeanOfScored ==
    \A k \in ghost.updated :
        \A m \in {x \in sentiment_metrics : x.date = k[1] /\ x.platform = k[2]} :
            LET S == ScoredRows(k[1], k[2])
            IN  S # {} =>
                   m.average_sentiment_score.num * Cardinality(S)
                      = SumScores(S) * m.average_sentiment_score.den

AverageIsMeanOfScoredWitness ==
    \E k \in ghost.updated :
        /\ \E m \in sentiment_metrics : m.date = k[1] /\ m.platform = k[2]
        /\ Cardinality(ScoredRows(k[1], k[2])) >= 2
        /\ \E x \in social_mentions :
              x.platform = k[2] /\ x.posted_at = k[1] /\ x.sentiment_score = NULL

(* C13: a classifier call never raises, its label is one of the three, and *)
(* it is exactly (neutral, 0.0) for an empty text and when a step of the   *)
(* tier that runs fails                                                    *)
TierFails(env) ==
    IF env.use_transformer /\ "import" \notin env.faults
    THEN env.faults \cap {"load", "pipe", "empty", "score"} # {}
    ELSE "textblob" \in env.faults

LexicalResult(text) ==
    [raised |-> FALSE, label |-> analyze_sentiment_textblob(text).label,
     score |-> analyze_sentiment_textblob(text).score]

(* C25: with the model tier selected and the transformers library or the   *)
(* model failing to load, a call returns what the lexical tier says about  *)
(* the text                                                                *)
LoadFailureFallsBackToLexical ==
    \A c \in ghost.calls :
        (c.env.use_transformer /\ "load" \in c.env.faults) =>
            c.result = LexicalResult(c.text)

(* the mentions of a partition, and whether a stored metrics row counts    *)
(* each of them once, under its label or as unanalyzed                     *)
Partition(date, platform) ==
    {x \in social_mentions : x.platform = platform /\ x.posted_at = date}

Accounts(m, part) ==
    /\ m.positive_count + m.negative_count + m.neutral_count + m.unanalyzed_count
          = Cardinality(part)
    /\ m.unanalyzed_count = Cardinality({x \in part : ~x.analyzed})

(* C21: right after the scheduled sentiment sweep, every (date, platform)  *)
(* of the trailing seven days that has mentions has a metrics row that     *)
(* counts every mention of the partition, the unclassified ones included   *)
SweepAccountsEveryPlatform ==
    ghost.swept =>
        \A i \in 0..(SweepDays - 1), platform \in Platforms :
            Partition(today - i, platform) # {} =>
                \E m \in sentiment_metrics :
                    /\ m.date = today - i /\ m.platform = platform
                    /\ Accounts(m, Partition(today - i, platform))

----------------------------------------------------------------------------
(* Specification: the citation connector on a store that earlier weeks'    *)
(* runs have written                                                        *)

(* a work stored by an earlier run, alive or marked dead by the clean-up *)
StoredCitation(dead) ==
    [id |-> 1, work_id |-> "w1", title |-> <<"ummatic", " ", "x">>,
     publication_date |-> 3, cited_by_count |-> 1, source_url |-> <<"openalex", "w1">>,
     citation_type |-> "word", updated_at |-> StartDay - 7,
     created_at |-> StartDay - 7, is_dead |-> dead]

StoredCitations == {{}, {StoredCitation(FALSE)}, {StoredCitation(TRUE)}}

(* the citation_metrics rows of earlier weeks *)
PriorMetrics ==
    LET monday == MondayOf(StartDay)
        week(back, total) ==
            [week_start_date |-> monday - 7 * back, total_citations |-> total,
             new_citations_this_week |-> 0, total_works |-> 1]
    IN  {{}, {week(1, 9)}, {week(1, 2), week(2, 9)}}

InitCitations ==
    /\ today = StartDay
    /\ cfg = [reddit_urls |-> FALSE, twitter_token |-> FALSE, apify_token |-> FALSE,
              news_url |-> FALSE]
    /\ scope = "citations"
    /\ citations \in StoredCitations
    /\ citation_metrics \in PriorMetrics
    /\ news_mentions = {} /\ social_mentions = {} /\ daily_metrics = {}
    /\ sentiment_metrics = {}
    /\ weekly_snapshots = {} /\ discovered_subreddits = {}
    /\ env_file = <<>> /\ orch = OrchIdle
    /\ runs = [r \in Procs |-> IdleRun]
    /\ ghost = GhostInit

NextCitations ==
    \/ StartOpenAlex(1)
    \/ OpenAlexWork(1)
    \/ OpenAlexMetrics(1)
    \/ CommitRun(1)
    \/ Rerun(1)

SpecCitations == InitCitations /\ [][NextCitations]_vars

(* the total of the latest week before this one, 0 when there is none *)
PriorWeeks == {x \in citation_metrics : x.week_start_date < MondayOf(today)}

LatestPriorTotal ==
    IF PriorWeeks = {} THEN 0
    ELSE LET w == CHOOSE x \in PriorWeeks :
                     \A y \in PriorWeeks : y.week_start_date <= x.week_start_date
         IN  w.total_citations

(* C12: the week's new_citations_this_week is max(0, total - previous      *)
(* total): 0 and never negative when the total fell, and the previous      *)
(* total is 0 when no earlier week is stored                               *)
NewCitationsClamped ==
    \A m \in citation_metrics :
        m.week_start_date = MondayOf(today) =>
            /\ m.new_citations_this_week >= 0
            /\ m.new_citations_this_week =
                  (IF m.total_citations < LatestPriorTotal THEN 0
                   ELSE m.total_citations - LatestPriorTotal)

NewCitationsClampedWitness ==
    \E m \in citation_metrics :
        /\ m.week_start_date = MondayOf(today)
        /\ PriorWeeks # {}
        /\ 0 < m.total_citations /\ m.total_citations < LatestPriorTotal
        /\ m.new_citations_this_week = 0

(* the columns of a stored work that a later upsert of the same work_id    *)
(* leaves alone                                                            *)
CitationKept(cols) ==
    \A x \in citations :
        \E y \in citations' :
            /\ y.id = x.id
            /\ \A c \in cols : y[c] = x[c]

(* C18 as stated: only cited_by_count and updated_at of a stored work      *)
(* change on a conflict; citation_type is among the columns left unchanged *)
CitationConflictKeepsType ==
    [][CitationKept({"work_id", "title", "publication_date", "source_url",
                     "citation_type", "is_dead"})]_vars

(* C18: on a conflict cited_by_count, citation_type and updated_at of the  *)
(* stored work change, and its other columns are left unchanged            *)
CitationConflictFrame ==
    [][CitationKept({"work_id", "title", "publication_date", "source_url",
                     "is_dead"})]_vars

CitationConflictWitness ==
    \E x \in citations :
        /\ x.id = 1 /\ x.work_id = "w1" /\ x.is_dead
        /\ x.updated_at = StartDay /\ x.cited_by_count = 3
        /\ x.title = StoredCitation(TRUE).title
        /\ runs[1].pc = "done" /\ runs[1].loc.dup > 0

----------------------------------------------------------------------------
(* Specification: ingest_reddit run after run on the same day, the feeds   *)
(* carrying more than one relevant post of the day                         *)

RollupEntries ==
    << RedditEntries[1],
       [id |-> "r4", title |-> <<"ummatic">>, author |-> "eve", link |-> "l5",
        summary |-> <<"meh">>, published |-> "today"],
       RedditEntries[2] >>

StartRedditRollup(r) ==
    /\ scope = "rollup"
    /\ CanStart(r)
    /\ \E feed \in Deliveries(RollupEntries, MaxBatch) :
          runs' = [runs EXCEPT ![r] = Begin(r, "reddit", feed, "rd_loop")]
    /\ ghost' = GhostInit
    /\ UNCHANGED <<envVars, storeVars>>

InitRollup ==
    /\ today = StartDay
    /\ cfg = [reddit_urls |-> TRUE, twitter_token |-> FALSE, apify_token |-> FALSE,
              news_url |-> FALSE]
    /\ scope = "rollup"
    /\ news_mentions = {} /\ social_mentions = {} /\ daily_metrics = {}
    /\ sentiment_metrics = {} /\ citations = {} /\ citation_metrics = {}
    /\ weekly_snapshots = {} /\ discovered_subreddits = {}
    /\ env_file = <<>> /\ orch = OrchIdle
    /\ runs = [r \in Procs |-> IdleRun]
    /\ ghost = GhostInit

NextRollup ==
    \/ StartRedditRollup(1)
    \/ RedditEntry(1)
    \/ RedditDaily(1)
    \/ RedditSentiment(1)
    \/ CommitRun(1)

SpecRollup == InitRollup /\ [][NextRollup]_vars

(* no connector run is under way *)
Quiet == \A r \in Procs : runs[r].pc \in {"idle", "done"}

(* C23: between connector runs, mentions_count of every daily metrics row  *)
(* is the number of stored mentions of its platform posted on its date     *)
MentionsCountIsRecount ==
    Quiet =>
        \A m \in daily_metrics :
            m.mentions_count =
                Cardinality({x \in social_mentions :
                                x.platform = m.platform /\ x.posted_at = m.date})

----------------------------------------------------------------------------
(* Specification: test_twitter_limit.py calls ingest_twitter(max_tweets)   *)
(* and compares what it returns; the tweets are followed as counts only    *)

TestMaxTweets == 50     \* count = ingest_twitter(max_tweets=50)
TestExpected == 40      \* 'PASS' if count <= 40
ApiMaxResults == 100    \* "max_results": min(max_tweets, 100)

(* the two quoted searches of the scraping tier *)
search_queries == <<"ummatics", "ummatic">>

(* "max_results" of the search request *)
MaxResults(max_tweets) == Min(max_tweets, ApiMaxResults)

(* what the services answer: the status of the search and the number of    *)
(* tweets in its page, and per query of the scraping tier the number of    *)
(* dataset items ("maxItems": max_tweets) that pass the word filter        *)
LimitFeeds(max_tweets) ==
    { f \in [primary : {"200", "429", "exc"},
             tweets : 0..MaxResults(max_tweets),
             items : [1..Len(search_queries) -> 0..max_tweets]] :
        /\ f.primary # "200" => f.tweets = 0
        /\ f.primary # "exc" => \A q \in 1..Len(search_queries) : f.items[q] = 0 }

RECURSIVE SumItems(_, _)
SumItems(items, q) == IF q = 0 THEN 0 ELSE items[q] + SumItems(items, q - 1)

(* len(all_tweets) when the tweet loop starts *)
FetchedCount(feed) ==
    CASE feed.primary = "200" -> feed.tweets
      [] feed.primary = "exc" /\ cfg.apify_token ->
            SumItems(feed.items, Len(search_queries))
      [] OTHER -> 0

(* the value of the call: every return statement of ingest_twitter is a    *)
(* bare return and the function's end has none, so it is None (NULL here)  *)
ingest_twitter_value(feed) == NULL

test_twitter_limit ==
    /\ scope = "limit"
    /\ ghost.calls = {}
    /\ \E feed \in LimitFeeds(TestMaxTweets) :
          ghost' = [ghost EXCEPT !.calls =
              {[max_tweets |-> TestMaxTweets, feed |-> feed,
                fetched |-> FetchedCount(feed),
                count |-> ingest_twitter_value(feed)]}]
    /\ UNCHANGED <<envVars, storeVars, runs>>

InitLimit ==
    /\ today = StartDay
    /\ cfg \in {c \in Configs : c.twitter_token}
    /\ scope = "limit"
    /\ news_mentions = {} /\ social_mentions = {} /\ daily_metrics = {}
    /\ sentiment_metrics = {} /\ citations = {} /\ citation_metrics = {}
    /\ weekly_snapshots = {} /\ discovered_subreddits = {}
    /\ env_file = <<>> /\ orch = OrchIdle
    /\ runs = [r \in Procs |-> IdleRun]
    /\ ghost = GhostInit

NextLimit == test_twitter_limit

SpecLimit == InitLimit /\ [][NextLimit]_vars

(* C24: the call returns the number of tweets it fetched, an integer, and  *)
(* for max_tweets = 50 that number is at most 40                           *)
ReturnsFetchedCountWithinCap ==
    \A c \in ghost.calls :
        /\ c.count \in Nat
        /\ c.count = c.fetched
        /\ c.max_tweets = TestMaxTweets => c.count <= TestExpected

----------------------------------------------------------------------------
(* Specification: connector runs whose batch holds a record the store      *)
(* rejects, next to valid records and records without an id                *)

RejectWorks ==
    << Works[1],
       [id |-> "w3", title |-> <<Overlong>>, cited_by_count |-> 4,
        publication_date |-> 3],
       Works[3],
       Works[4] >>

RejectTweets ==
    << Tweets[1],
       [id |-> "p5", text |-> <<"ummatic">>, userName |-> Overlong,
        createdAt |-> "today", likeCount |-> 0, retweetCount |-> 0, replyCount |-> 0],
       ApifyItems[2],
       Tweets[4] >>

StartOpenAlexReject(r) ==
    /\ scope = "reject_openalex"
    /\ CanStart(r)
    /\ \E works \in Deliveries(RejectWorks, MaxBatch) :
          runs' = [runs EXCEPT ![r] =
              Begin(r, "openalex", [status |-> "ok", works |-> works], "oa_loop")]
    /\ ghost' = GhostInit
    /\ UNCHANGED <<envVars, storeVars>>

StartTwitterReject(r) ==
    /\ scope = "reject_twitter"
    /\ CanStart(r)
    /\ \E tweets \in Deliveries(RejectTweets, MaxBatch) :
          runs' = [runs EXCEPT ![r] =
              Begin(r, "twitter",
                    [primary |-> "200", tweets |-> tweets, apify |-> "ok",
                     items |-> <<>>],
                    "tw_preread")]
    /\ ghost' = GhostInit
    /\ UNCHANGED <<envVars, storeVars>>

InitReject ==
    /\ today = StartDay
    /\ cfg = [reddit_urls |-> FALSE, twitter_token |-> TRUE, apify_token |-> FALSE,
              news_url |-> FALSE]
    /\ scope \in {"reject_openalex", "reject_twitter"}
    /\ news_mentions = {} /\ social_mentions = {} /\ daily_metrics = {}
    /\ sentiment_metrics = {} /\ citations = {} /\ citation_metrics = {}
    /\ weekly_snapshots = {} /\ discovered_subreddits = {}
    /\ env_file = <<>> /\ orch = OrchIdle
    /\ runs = [r \in Procs |-> IdleRun]
    /\ ghost = GhostInit

NextReject ==
    \/ StartOpenAlexReject(1)
    \/ OpenAlexWork(1)
    \/ OpenAlexMetrics(1)
    \/ StartTwitterReject(1)
    \/ TwitterPreread(1)
    \/ TwitterPrimary(1)
    \/ TwitterFollower(1)
    \/ TwitterTweet(1)
    \/ TwitterSelect(1)
    \/ TwitterUpsert(1)
    \/ CommitRun(1)
    \/ TwitterSentiment(1)

SpecReject == InitReject /\ [][NextReject]_vars

(* the records of a batch that have their required fields and that the     *)
(* store admits                                                            *)
ValidWork(work) == work.id # "" /\ ~CitationRejected(CitationRow(work, today))

ValidTweet(tweet) ==
    /\ tweet.id # "" /\ LowerName(tweet.userName) # "ummatics"
    /\ ~MentionRejected(TweetRow(tweet, today))

(* C26: when a run has finished, every valid record of its batch is in the *)
(* store, whatever other records of the batch lacked a field or were       *)
(* rejected by the store                                                   *)
ValidRecordsPersisted ==
    runs[1].pc = "done" =>
        /\ runs[1].kind = "openalex" =>
              \A j \in 1..Len(runs[1].feed.works) :
                  ValidWork(runs[1].feed.works[j]) =>
                      \E x \in citations : x.work_id = runs[1].feed.works[j].id
        /\ (runs[1].kind = "twitter" /\ cfg.twitter_token
               /\ runs[1].feed.primary = "200") =>
              \A j \in 1..Len(runs[1].feed.tweets) :
                  ValidTweet(runs[1].feed.tweets[j]) =>
                      \E x \in social_mentions : x.post_id = runs[1].feed.tweets[j].id

----------------------------------------------------------------------------
(* C27: when a run of ingest_reddit or ingest_twitter has finished, the    *)
(* sentiment metrics row of (today, its platform) counts every stored      *)
(* mention of the platform posted today, those of the run included, each   *)
(* under its label or as unanalyzed                                        *)
RunLeavesSentimentCurrent ==
    (runs[1].pc = "done" /\ runs[1].kind \in {"reddit", "twitter"}) =>
        LET part == Partition(runs[1].day, PlatformOf(runs[1].kind))
        IN  part # {} =>
                \E m \in sentiment_metrics :
                    /\ m.date = runs[1].day
                    /\ m.platform = PlatformOf(runs[1].kind)
                    /\ Accounts(m, part)

----------------------------------------------------------------------------
(* cleanup_citations: the sweep over the citations that are not marked     *)
(* dead, which marks those with a dead URL and all but one of a title      *)

(* citations stored by earlier runs of ingest_openalex: works that share a *)
(* title, one of them without a publication date, two of them stored by    *)
(* the same run                                                            *)
StoredWork(id, work_id, title, publication_date, created_at) ==
    [id |-> id, work_id |-> work_id, title |-> title,
     publication_date |-> publication_date, cited_by_count |-> 1,
     source_url |-> <<"openalex", work_id>>, citation_type |-> "organization",
     updated_at |-> created_at, created_at |-> created_at, is_dead |-> FALSE]

CleanupCatalogue ==
    { StoredWork(1, "c1", <<"ummatic", "s">>, 5, 1),
      StoredWork(2, "c2", <<"ummatic", "s">>, 3, 2),
      StoredWork(3, "c3", <<"ummatic", "s">>, 3, 2),
      StoredWork(4, "c4", <<"ummatic", "s">>, NULL, 3),
      StoredWork(5, "c5", <<"x">>, 3, 3) }

(* ORDER BY title, publication_date DESC, created_at DESC: whether x comes *)
(* before y; DESC puts the rows without a date first, and the order of     *)
(* rows equal in the three keys is not fixed                               *)
TitleLess(t, u) == t = <<"ummatic", "s">> /\ u = <<"x">>

Precedes(x, y) ==
    \/ TitleLess(x.title, y.title)
    \/ /\ x.title = y.title
       /\ \/ x.publication_date = NULL /\ y.publication_date # NULL
          \/ /\ x.publication_date # NULL /\ y.publication_date # NULL
             /\ x.publication_date > y.publication_date
          \/ /\ x.publication_date = y.publication_date
             /\ x.created_at > y.created_at

SelectOrders(S) ==
    {q \in ListsOf(S) :
        \A i \in 1..Len(q) : \A j \in (i + 1)..Len(q) : ~Precedes(q[j], q[i])}

(* Python's (pub_date, created_at) > (prev_pub_date, prev_created): equal  *)
(* first elements pass the comparison on to the second ones, and None      *)
(* against a date raises TypeError                                         *)
TupleGreater(a, b) ==
    IF a[1] = b[1] THEN [raised |-> FALSE, value |-> a[2] > b[2]]
    ELSE IF a[1] = NULL \/ b[1] = NULL THEN [raised |-> TRUE, value |-> FALSE]
    ELSE [raised |-> FALSE, value |-> a[1] > b[1]]

(* the loop over the selected rows: seen is seen_titles, marked the ids    *)
(* the UPDATE statements set is_dead on                                    *)
RECURSIVE CleanupLoop(_, _, _, _, _)
CleanupLoop(rows, i, dead_urls, seen, marked) ==
    IF i > Len(rows) THEN [raised |-> FALSE, marked |-> marked]
    ELSE LET c == rows[i]
             is_url_dead == c.source_url = <<>> \/ c.id \in dead_urls
             entry == [title |-> c.title, id |-> c.id, working |-> ~is_url_dead,
                       pub |-> c.publication_date, created |-> c.created_at]
             prevs == {e \in seen : e.title = c.title}
             prev == CHOOSE e \in prevs : TRUE
             compared == is_url_dead = ~prev.working
             cmp == TupleGreater(<<c.publication_date, c.created_at>>,
                                 <<prev.pub, prev.created>>)
             keep_current == IF compared THEN cmp.value ELSE ~is_url_dead
             own == IF is_url_dead THEN {c.id} ELSE {}
         IN  IF prevs = {}
             THEN CleanupLoop(rows, i + 1, dead_urls, seen \cup {entry},
                              marked \cup own)
             ELSE IF compared /\ cmp.raised
             THEN [raised |-> TRUE, marked |-> marked]
             ELSE IF keep_current
             THEN CleanupLoop(rows, i + 1, dead_urls, (seen \ prevs) \cup {entry},
                              marked \cup {prev.id} \cup own)
             ELSE CleanupLoop(rows, i + 1, dead_urls, seen, marked \cup {c.id})

(* the whole function: the answers to the HEAD requests are dead_urls; an  *)
(* exception leaves the function before conn.commit()                      *)
cleanup_citations ==
    LET live == {x \in citations : ~x.is_dead}
    IN  /\ scope = "cleanup"
        /\ \E dead_urls \in SUBSET {x.id : x \in live}, rows \in SelectOrders(live) :
              LET res == CleanupLoop(rows, 1, dead_urls, {}, {})
              IN  /\ citations' =
                        IF res.raised THEN citations
                        ELSE {[x EXCEPT !.is_dead = x.is_dead \/ x.id \in res.marked] :
                                 x \in citations}
                  /\ ghost' = [ghost EXCEPT !.calls =
                        {[before |-> {x.id : x \in live}, dead_urls |-> dead_urls,
                          raised |-> res.raised]}]
        /\ UNCHANGED <<envVars, news_mentions, social_mentions, daily_metrics,
                       sentiment_metrics, citation_metrics, weekly_snapshots,
                       discovered_subreddits, runs>>

InitCleanup ==
    /\ today = StartDay
    /\ cfg = [reddit_urls |-> FALSE, twitter_token |-> FALSE, apify_token |-> FALSE,
              news_url |-> FALSE]
    /\ scope = "cleanup"
    /\ citations \in SUBSET CleanupCatalogue
    /\ news_mentions = {} /\ social_mentions = {} /\ daily_metrics = {}
    /\ sentiment_metrics = {} /\ citation_metrics = {}
    /\ weekly_snapshots = {} /\ discovered_subreddits = {}
    /\ env_file = <<>> /\ orch = OrchIdle
    /\ runs = [r \in Procs |-> IdleRun]
    /\ ghost = GhostInit

NextCleanup == cleanup_citations

SpecCleanup == InitCleanup /\ [][NextCleanup]_vars

(* y is preferred to x: a live URL first, then the newer publication date  *)
(* (no date being the oldest), then the newer creation timestamp           *)
Preferred(y, x, dead_urls) ==
    LET live(z) == z.id \notin dead_urls
    IN  \/ live(y) /\ ~live(x)
        \/ /\ live(y) = live(x)
           /\ \/ y.publication_date > x.publication_date
              \/ /\ y.publication_date = x.publication_date
                 /\ y.created_at > x.created_at

(* C28: after a sweep, of the citations of one title that were not dead    *)
(* before it at most one is not dead, none of the others is preferred to   *)
(* it, and no citation with a dead URL is left not dead                    *)
CleanupKeepsPreferred ==
    \A call \in ghost.calls :
        LET swept == {x \in citations : x.id \in call.before}
            left == {x \in swept : ~x.is_dead}
        IN  /\ \A x \in left, y \in left : x.title = y.title => x = y
            /\ \A x \in left, y \in swept :
                  x.title = y.title => ~Preferred(y, x, call.dead_urls)
            /\ \A x \in left : x.id \notin call.dead_urls

====
